---------------------------- MODULE Spec2Model ----------------------------
(***************************************************************************)
(* A model of the crafting API (items and crafting methods): the slug      *)
(* generator, the list-parameter parser, the pagination response builder,  *)
(* and the handler -> service -> store pipeline over the MySQL tables.     *)
(*                                                                         *)
(* Strings the code inspects character by character (names, slugs, query   *)
(* parameter values) are sequences of one-character strings.               *)
(***************************************************************************)
EXTENDS Integers, Sequences, FiniteSets, TLC

(***************************************************************************)
(* Bounds of the model.                                                    *)
(***************************************************************************)
\* longest display name handed to the slug generator
MaxNameLen == 4
\* largest total, page, perPage and number of rows handed to
\* NewPaginatedResponse directly
MaxTotalArg == 102
MaxPageArg == 4
MaxPerPageArg == 102
MaxDataLen == 3
\* longest page and per_page query values, and most rows in the listed table
MaxPageDigits == 2
MaxPerPageDigits == 3
MaxListRows == 3
\* most rows ever inserted into a table, and the latest time of a write
MaxID == 2
MaxClock == 2
MaxStorePage == 3
MaxStorePerPage == 2
\* ids of items and crafting methods, and of recipes, in the database the
\* deletes run on
MaxDbID == 2
MaxRecipeID == 1

(***************************************************************************)
(* Characters.  One representative per class the slug code distinguishes.  *)
(***************************************************************************)
LowerLetters == {"a"}
UpperLetters == {"A"}
Digits == {"1"}
WhitespaceChars == {" "}
HyphenChar == "-"
OtherChars == {"!"}

NameChars ==
    LowerLetters \cup UpperLetters \cup Digits \cup WhitespaceChars
        \cup {HyphenChar} \cup OtherChars

\* every string over NameChars of length 0..n
StringsUpTo(n) == UNION {[1..k -> NameChars] : k \in 0..n}

SlugInputs == StringsUpTo(MaxNameLen)

(***************************************************************************)
(* Go library functions used by generateSlug.                              *)
(***************************************************************************)
\* unicode.ToLower on one character
ToLowerChar(c) == IF c = "A" THEN "a" ELSE c

\* strings.ToLower
ToLower(s) == [i \in 1..Len(s) |-> ToLowerChar(s[i])]

\* utf8mb4_unicode_ci compares without regard to letter case
CollationKey(text) == ToLower(text)

\* the rest of s after its longest prefix of characters of class
RECURSIVE DropRun(_, _)
DropRun(s, class) ==
    IF s # <<>> /\ Head(s) \in class THEN DropRun(Tail(s), class) ELSE s

\* a plausible slip: only the first match is replaced (ReplaceAllString
\* exchanged for a replace-once)
RECURSIVE ReplaceFirstRun(_, _, _)
ReplaceFirstRun(s, class, repl) ==
    IF s = <<>> THEN <<>>
    ELSE IF Head(s) \in class
         THEN repl \o DropRun(Tail(s), class)
         ELSE <<Head(s)>> \o ReplaceFirstRun(Tail(s), class, repl)

\* regexp.MustCompile(`[class]+`).ReplaceAllString(s, repl): every maximal
\* run of characters of class is replaced by repl
RECURSIVE ReplaceAllString(_, _, _)
ReplaceAllString(s, class, repl) ==
    IF s = <<>> THEN <<>>
    ELSE IF Head(s) \in class
         THEN repl \o ReplaceAllString(DropRun(Tail(s), class), class, repl)
         ELSE <<Head(s)>> \o ReplaceAllString(Tail(s), class, repl)

\* strings.Trim(s, cutset): leading and trailing characters of cutset removed
RECURSIVE TrimLeft(_, _)
TrimLeft(s, cutset) ==
    IF s # <<>> /\ Head(s) \in cutset THEN TrimLeft(Tail(s), cutset) ELSE s

RECURSIVE TrimRight(_, _)
TrimRight(s, cutset) ==
    IF s # <<>> /\ s[Len(s)] \in cutset
    THEN TrimRight(SubSeq(s, 1, Len(s) - 1), cutset)
    ELSE s

Trim(s, cutset) == TrimRight(TrimLeft(s, cutset), cutset)

(***************************************************************************)
(* The slug generators.                                                    *)
(***************************************************************************)
\* the characters `[^a-z0-9]` matches, among those a lowered name can hold
nonAlphanumericRegex == NameChars \ (LowerLetters \cup Digits)

\* the characters `\s` matches
whitespaceRegex == WhitespaceChars

\* the strip step with the first match only
StripFirstNonAlphanumeric(s) == ReplaceFirstRun(s, nonAlphanumericRegex, <<>>)

\* nonAlphanumericRegex.ReplaceAllString(slug, "")
StripNonAlphanumeric(s) == ReplaceAllString(s, nonAlphanumericRegex, <<>>)

generateSlug(name) ==
    LET lowered == ToLower(name)
        hyphenated == ReplaceAllString(lowered, whitespaceRegex, <<HyphenChar>>)
        stripped == StripNonAlphanumeric(hyphenated)
    IN  Trim(stripped, {HyphenChar})

\* the crafting-method service's copy of the same function
generateCraftingMethodSlug(name) ==
    LET lowered == ToLower(name)
        hyphenated == ReplaceAllString(lowered, whitespaceRegex, <<HyphenChar>>)
        stripped == ReplaceAllString(hyphenated, nonAlphanumericRegex, <<>>)
    IN  Trim(stripped, {HyphenChar})

(***************************************************************************)
(* Pagination: constants and the response builder.                         *)
(***************************************************************************)
DefaultPage == 1
DefaultPerPage == 15
MaxPerPage == 100

\* int(math.Ceil(float64(total) / float64(perPage))): the float quotient is
\* exact for operands below 2^53, so the result is the integer ceiling
CeilOfQuotient(total, perPage) ==
    IF total % perPage = 0 THEN total \div perPage ELSE (total \div perPage) + 1

\* a plausible slip: integer division, which rounds down
LastPageRoundedDown(total, page, perPage) ==
    IF total > 0 /\ perPage > 0 THEN total \div perPage
    ELSE IF page = 1 THEN 1
    ELSE 0

\* lastPage, from the normalized page and perPage
LastPageOf(total, page, perPage) ==
    IF total > 0 /\ perPage > 0 THEN CeilOfQuotient(total, perPage)
    ELSE IF page = 1 THEN 1
    ELSE 0

\* a plausible slip: the zero-based offset instead of the one-based index
FromIndexZeroBased(page, perPage) == (page - 1) * perPage

\* from = (page-1)*perPage + 1
FromIndex(page, perPage) == (page - 1) * perPage + 1

\* a plausible slip: the page is not lowered to lastPage
NewPaginatedResponseUnclamped(data, total, page, perPage) ==
    LET page1 == IF page <= 0 THEN DefaultPage ELSE page
        perPage1 == IF perPage <= 0 THEN DefaultPerPage ELSE perPage
        perPage2 == IF perPage1 > MaxPerPage THEN MaxPerPage ELSE perPage1
        lastPage == LastPageOf(total, page1, perPage2)
        hasRows == total > 0 /\ Len(data) > 0
        from == IF hasRows THEN FromIndex(page1, perPage2) ELSE 0
        to == IF hasRows THEN from + Len(data) - 1 ELSE 0
    IN  [Total |-> total, PerPage |-> perPage2, CurrentPage |-> page1,
         LastPage |-> lastPage, From |-> from, To |-> to, Data |-> data]

NewPaginatedResponse(data, total, page, perPage) ==
    LET page1 == IF page <= 0 THEN DefaultPage ELSE page
        perPage1 == IF perPage <= 0 THEN DefaultPerPage ELSE perPage
        perPage2 == IF perPage1 > MaxPerPage THEN MaxPerPage ELSE perPage1
        lastPage == LastPageOf(total, page1, perPage2)
        page2 == IF page1 > lastPage /\ lastPage > 0 THEN lastPage ELSE page1
        hasRows == total > 0 /\ Len(data) > 0
        from == IF hasRows THEN FromIndex(page2, perPage2) ELSE 0
        to == IF hasRows THEN from + Len(data) - 1 ELSE 0
    IN  [Total |-> total, PerPage |-> perPage2, CurrentPage |-> page2,
         LastPage |-> lastPage, From |-> from, To |-> to, Data |-> data]

\* the response before the builder has run
NoResponse ==
    [Total |-> 0, PerPage |-> 0, CurrentPage |-> 0, LastPage |-> 0,
     From |-> 0, To |-> 0, Data |-> <<>>]

\* the data slices handed to the builder directly: row numbers 1..n
DataArgs == {[i \in 1..n |-> i] : n \in 0..MaxDataLen}

(***************************************************************************)
(* Rows.  A sql.NullString is a record; a Go pointer or an absent value is *)
(* a sequence of length 0 (nil) or 1.                                      *)
(***************************************************************************)
NullString == [String |-> "", Valid |-> FALSE]

ValidString(str) == [String |-> str, Valid |-> TRUE]

\* the i-th row of a listed items table: distinct names and slugs, as the
\* UNIQUE columns require, and creation times in insertion order
ListRowName(i) == [k \in 1..i |-> "a"]

ListRow(i) ==
    [ID |-> i, Name |-> ListRowName(i), Slug |-> generateSlug(ListRowName(i)),
     IsRawMaterial |-> ((i % 2) = 1), Description |-> NullString,
     ImageURL |-> NullString, CreatedAt |-> i, UpdatedAt |-> i]

ListTables == {{ListRow(i) : i \in 1..n} : n \in 0..MaxListRows}

(***************************************************************************)
(* Query parameters: url.Values maps a key to the list of its values; an   *)
(* absent key has the empty list.                                          *)
(***************************************************************************)
QueryChars == {"-", "0", "1", "2"}

QueryStrings(n) == UNION {[1..k -> QueryChars] : k \in 0..n}

QueryValues(n) == {<<>>} \cup {<<v>> : v \in QueryStrings(n)}

BoolQueryValues == {<<>>, <<"true">>, <<"false">>, <<"maybe">>}

Queries ==
    [page : QueryValues(MaxPageDigits),
     per_page : QueryValues(MaxPerPageDigits),
     sort : {<<>>},
     name : {<<>>},
     is_raw_material : BoolQueryValues,
     other : {<<>>, <<"1">>}]

DigitValue(c) == CASE c = "0" -> 0 [] c = "1" -> 1 [] c = "2" -> 2

\* the value of a digit string, most significant digit first
RECURSIVE DigitsValue(_, _)
DigitsValue(s, acc) ==
    IF s = <<>> THEN acc ELSE DigitsValue(Tail(s), 10 * acc + DigitValue(Head(s)))

\* strconv.ParseInt(s, 10, 0): an optional sign, then one or more digits
\* (values here stay far below the 64-bit range error)
ParseInt(s) ==
    LET signed == s # <<>> /\ Head(s) \in {"-", "+"}
        digits == IF signed THEN Tail(s) ELSE s
        ok == digits # <<>> /\ \A i \in 1..Len(digits) : digits[i] \in {"0", "1", "2"}
    IN  [ok |-> ok,
         val |-> IF ~ok THEN 0
                 ELSE IF signed /\ Head(s) = "-" THEN 0 - DigitsValue(digits, 0)
                 ELSE DigitsValue(digits, 0)]

\* gorilla/schema's converter for bool: "on", or strconv.ParseBool
ParseBool(str) ==
    LET trues == {"on", "1", "t", "T", "TRUE", "true", "True"}
        falses == {"0", "f", "F", "FALSE", "false", "False"}
    IN  [ok |-> str \in trues \cup falses, val |-> str \in trues]

\* a plausible slip: a value that does not convert is skipped, the field
\* keeping its default
DecodeIntFieldLenient(values, current) ==
    IF values = <<>> THEN [ok |-> TRUE, val |-> current]
    ELSE LET last == values[Len(values)]
         IN  IF last = <<>> THEN [ok |-> TRUE, val |-> current]
             ELSE IF ParseInt(last).ok THEN [ok |-> TRUE, val |-> ParseInt(last).val]
             ELSE [ok |-> TRUE, val |-> current]

\* decoder.Decode on an int field: an absent key or an empty value leaves the
\* field as it was; otherwise the last value is converted, and a value that
\* does not convert is an error
DecodeIntField(values, current) ==
    IF values = <<>> THEN [ok |-> TRUE, val |-> current]
    ELSE LET last == values[Len(values)]
         IN  IF last = <<>> THEN [ok |-> TRUE, val |-> current]
             ELSE IF ParseInt(last).ok THEN [ok |-> TRUE, val |-> ParseInt(last).val]
             ELSE [ok |-> FALSE, val |-> current]

\* decoder.Decode on a *bool field: nil when the key is absent or empty
DecodeBoolPtrField(values) ==
    IF values = <<>> THEN [ok |-> TRUE, val |-> <<>>]
    ELSE LET last == values[Len(values)]
         IN  IF last = "" THEN [ok |-> TRUE, val |-> <<>>]
             ELSE IF ParseBool(last).ok
                  THEN [ok |-> TRUE, val |-> <<ParseBool(last).val>>]
             ELSE [ok |-> FALSE, val |-> <<>>]

\* decoder.Decode on a string field: the last value of the key; the field
\* keeps its zero value "" when the key is absent
DecodeStringField(values) == IF values = <<>> THEN <<>> ELSE values[Len(values)]

\* decoder.Decode on a *string field: nil when the key is absent
DecodeStringPtrField(values) ==
    IF values = <<>> THEN <<>> ELSE <<values[Len(values)]>>

\* a plausible slip: the decoder left as schema.NewDecoder() makes it
IgnoreUnknownKeysUnset == FALSE

\* decoder.IgnoreUnknownKeys(true)
IgnoreUnknownKeys == TRUE

\* decoder.Decode on a key no field of the target is tagged with: an error
\* unless unknown keys are ignored
DecodeUnknownKey(values) == values = <<>> \/ IgnoreUnknownKeys

\* ListParams[ItemFilters]{} and the error flag ParseListParams returns
ZeroListParams ==
    [err |-> FALSE, Page |-> 0, PerPage |-> 0, Sort |-> <<>>,
     Filters |-> [Name |-> <<>>, IsRawMaterial |-> <<>>]]

\* a plausible slip: the page is taken as decoded
PageParamAsDecoded(page) == page

\* if baseParams.Page <= 0 { baseParams.Page = DefaultPage }
NormalizePageParam(page) == IF page <= 0 THEN DefaultPage ELSE page

\* a plausible slip: the upper clamp is missing
PerPageParamWithoutMax(perPage) ==
    IF perPage <= 0 THEN DefaultPerPage ELSE perPage

\* if PerPage <= 0 { default } else if PerPage > MaxPerPage { MaxPerPage }
ClampPerPageParam(perPage) ==
    IF perPage <= 0 THEN DefaultPerPage
    ELSE IF perPage > MaxPerPage THEN MaxPerPage
    ELSE perPage

ParseListParams(query) ==
    LET page == DecodeIntField(query.page, DefaultPage)
        perPage == DecodeIntField(query.per_page, DefaultPerPage)
        raw == DecodeBoolPtrField(query.is_raw_material)
    IN  IF ~(page.ok /\ perPage.ok /\ DecodeUnknownKey(query.other))
        THEN [ZeroListParams EXCEPT !.err = TRUE]
        ELSE IF ~raw.ok THEN [ZeroListParams EXCEPT !.err = TRUE]
        ELSE [err |-> FALSE,
              Page |-> NormalizePageParam(page.val),
              PerPage |-> ClampPerPageParam(perPage.val),
              Sort |-> DecodeStringField(query.sort),
              Filters |-> [Name |-> DecodeStringPtrField(query.name),
                           IsRawMaterial |-> raw.val]]

(***************************************************************************)
(* The item store's list query, the service and the list handler.          *)
(***************************************************************************)
\* text LIKE pattern: % stands for any run of characters, _ for any one
RECURSIVE Like(_, _)
Like(text, pattern) ==
    IF pattern = <<>> THEN text = <<>>
    ELSE IF Head(pattern) = "%"
    THEN \E k \in 0..Len(text) : Like(SubSeq(text, k + 1, Len(text)), Tail(pattern))
    ELSE /\ text # <<>>
         /\ Head(pattern) = "_" \/ Head(pattern) = Head(text)
         /\ Like(Tail(text), Tail(pattern))

\* a plausible slip: the name filter compared with name = ? instead of LIKE
MatchesFiltersExactName(row, filters) ==
    /\ (filters.Name # <<>> /\ filters.Name[1] # <<>>)
       => CollationKey(row.Name) = CollationKey(filters.Name[1])
    /\ filters.IsRawMaterial # <<>> => row.IsRawMaterial = filters.IsRawMaterial[1]

\* the WHERE clause built from the filters that are set: name LIKE
\* '%' + name + '%' under the column's collation, is_raw_material = flag
MatchesFilters(row, filters) ==
    /\ (filters.Name # <<>> /\ filters.Name[1] # <<>>)
       => Like(CollationKey(row.Name),
               <<"%">> \o CollationKey(filters.Name[1]) \o <<"%">>)
    /\ filters.IsRawMaterial # <<>> => row.IsRawMaterial = filters.IsRawMaterial[1]

\* strings.Split(s, sep) for a separator of one character
RECURSIVE Split(_, _)
Split(s, sep) ==
    IF \A i \in 1..Len(s) : s[i] # sep THEN <<s>>
    ELSE LET k == CHOOSE i \in 1..Len(s) :
                     s[i] = sep /\ \A j \in 1..(i - 1) : s[j] # sep
         IN  <<SubSeq(s, 1, k - 1)>> \o Split(SubSeq(s, k + 1, Len(s)), sep)

\* the words of the sort parameter
NameField == <<"n", "a", "m", "e">>
SlugField == <<"s", "l", "u", "g">>
CreatedAtField == <<"c", "r", "e", "a", "t", "e", "d", "_", "a", "t">>
UpdatedAtField == <<"u", "p", "d", "a", "t", "e", "d", "_", "a", "t">>
AscWord == <<"a", "s", "c">>
DescWord == <<"d", "e", "s", "c">>

allowedSortFields == {NameField, SlugField, CreatedAtField, UpdatedAtField}

\* sortField and sortOrder of the default sort
DefaultSort == [field |-> CreatedAtField, order |-> "DESC"]

\* a plausible slip: the sort parameter is ignored
SortClauseIgnored(sort) == DefaultSort

\* sortField and sortOrder as ListItems derives them from params.Sort
SortClause(sort) ==
    LET parts == Split(sort, "_")
    IN  IF sort # <<>> /\ Len(parts) = 2 /\ parts[1] \in allowedSortFields
        THEN [field |-> parts[1],
              order |-> IF ToLower(parts[2]) = AscWord THEN "ASC" ELSE "DESC"]
        ELSE DefaultSort

\* the place of a character in the collation's order
CharRank(c) ==
    LET order == <<" ", "-", "!", "1", "a", "b", "c">>
    IN  CHOOSE i \in 1..Len(order) : order[i] = c

\* a sorts strictly before b in the collation's order
RECURSIVE TextBefore(_, _)
TextBefore(a, b) ==
    IF b = <<>> THEN FALSE
    ELSE IF a = <<>> THEN TRUE
    ELSE IF Head(a) # Head(b) THEN CharRank(Head(a)) < CharRank(Head(b))
    ELSE TextBefore(Tail(a), Tail(b))

\* r sorts strictly before q in ascending order of the column
ColumnBefore(r, q, field) ==
    CASE field = NameField -> TextBefore(CollationKey(r.Name), CollationKey(q.Name))
      [] field = SlugField -> TextBefore(CollationKey(r.Slug), CollationKey(q.Slug))
      [] field = CreatedAtField -> r.CreatedAt < q.CreatedAt
      [] field = UpdatedAtField -> r.UpdatedAt < q.UpdatedAt

\* r comes no later than q under ORDER BY field order; rows equal in the
\* column are taken in primary-key order
ComesFirst(r, q, clause) ==
    LET less == ColumnBefore(r, q, clause.field)
        more == ColumnBefore(q, r, clause.field)
    IN  IF ~less /\ ~more THEN r.ID <= q.ID
        ELSE IF clause.order = "ASC" THEN less ELSE more

RECURSIVE OrderBy(_, _)
OrderBy(rows, clause) ==
    IF rows = {} THEN <<>>
    ELSE LET first == CHOOSE r \in rows : \A q \in rows : ComesFirst(r, q, clause)
         IN  <<first>> \o OrderBy(rows \ {first}, clause)

\* (params.Page - 1) * params.PerPage, as a Go int
OffsetOf(params) == (params.Page - 1) * params.PerPage

\* a plausible slip: the offset is the page number, not a number of rows
LimitOffsetByPage(sorted, limit, offset) ==
    LET pages == offset \div limit
    IN  IF pages < 0 \/ pages >= Len(sorted) THEN <<>>
        ELSE SubSeq(sorted, pages + 1,
                    IF pages + limit < Len(sorted) THEN pages + limit ELSE Len(sorted))

\* LIMIT limit OFFSET uint64(offset): a negative offset converts to a number
\* beyond every table
LimitOffset(sorted, limit, offset) ==
    IF offset < 0 \/ offset >= Len(sorted) THEN <<>>
    ELSE SubSeq(sorted, offset + 1,
                IF offset + limit < Len(sorted) THEN offset + limit ELSE Len(sorted))

\* SELECT COUNT(*) FROM items WHERE ...: the first statement of ListItems
CountItems(table, filters) == Cardinality({r \in table : MatchesFilters(r, filters)})

\* SELECT ... WHERE ... ORDER BY ... LIMIT ... OFFSET ...: the second one
SelectItems(table, params) ==
    LimitOffset(OrderBy({r \in table : MatchesFilters(r, params.Filters)},
                        SortClause(params.Sort)),
                params.PerPage, OffsetOf(params))

\* mysqlItemStore.ListItems on an unchanging table: the rows of the page,
\* the total, and the number of statements sent (the count, then the select)
StoreListItems(table, params) ==
    LET total == CountItems(table, params.Filters)
    IN  IF total = 0 THEN [items |-> <<>>, total |-> 0, statements |-> 1]
        ELSE [items |-> SelectItems(table, params), total |-> total, statements |-> 2]

\* itemServiceImpl.ListItems
ServiceListItems(table, params) ==
    LET got == StoreListItems(table, params)
    IN  NewPaginatedResponse(got.items, got.total, params.Page, params.PerPage)

\* MakeListHandler: the status and the body it answers
ListHandler(table, query) ==
    LET params == ParseListParams(query)
    IN  IF params.err THEN [status |-> 400, body |-> NoResponse]
        ELSE [status |-> 200, body |-> ServiceListItems(table, params)]

(***************************************************************************)
(* Direct calls of the store's list: tables whose rows come in a different *)
(* order by name, by created_at and by updated_at, and the parameters the  *)
(* service can hand over.                                                  *)
(***************************************************************************)
StoreRowName(i) ==
    [k \in 1..(((i - 1) \div 3) + 1) |-> <<"b", "c", "a">>[((i - 1) % 3) + 1]]

StoreRow(i) ==
    [ID |-> i, Name |-> StoreRowName(i), Slug |-> generateSlug(StoreRowName(i)),
     IsRawMaterial |-> ((i % 2) = 1), Description |-> NullString,
     ImageURL |-> NullString, CreatedAt |-> i,
     UpdatedAt |-> IF (i % 2) = 1 THEN i + 2 ELSE i]

StoreTables == {{StoreRow(i) : i \in ids} : ids \in SUBSET (1..MaxListRows)}

\* sort parameters: well formed, with an odd direction, with an unknown
\* field, without a direction, with a part too many
SortStrings ==
    {<<>>}
    \cup {f \o <<"_">> \o d : f \in allowedSortFields, d \in {AscWord, DescWord}}
    \cup {NameField \o <<"_">> \o <<"f", "o", "o">>,
          NameField \o <<"_">> \o <<"A", "s", "c">>,
          NameField,
          <<"f", "o", "o">> \o <<"_">> \o AscWord,
          NameField \o <<"_">> \o AscWord \o <<"_">> \o <<"x">>}

NameFilters ==
    {<<>>, << <<>> >>, << <<"a">> >>, << <<"A">> >>, << <<"_">> >>, << <<"a", "b">> >>}

StoreParams ==
    [err : {FALSE},
     Page : 1..MaxStorePage,
     PerPage : 1..MaxStorePerPage,
     Sort : SortStrings,
     Filters : [Name : NameFilters, IsRawMaterial : {<<>>, <<TRUE>>, <<FALSE>>}]]

NoResult == [items |-> <<>>, total |-> 0, statements |-> 0]

(***************************************************************************)
(* Requests.  A JSON body names a field (a sequence of length 1) or does   *)
(* not (the empty sequence); a nullable string field holds a JSON token.   *)
(***************************************************************************)
JsonNull == [type |-> "null", text |-> ""]

JsonString(str) == [type |-> "string", text |-> str]

JsonNumber == [type |-> "number", text |-> "7"]

\* JSONNullString.UnmarshalJSON fails: neither null nor a JSON string
UnmarshalJSONFails(token) == token.type \notin {"null", "string"}

\* json.Decode fails on a body whose nullable string field does
NullStringDecodeFails(field) == field # <<>> /\ UnmarshalJSONFails(field[1])

\* JSONNullString.UnmarshalJSON
UnmarshalJSON(token) ==
    IF token.type = "null" THEN NullString ELSE ValidString(token.text)

\* a JSONNullString field after json.Decode: the zero value when the body
\* does not name it
DecodeNullString(field) ==
    IF field = <<>> THEN NullString ELSE UnmarshalJSON(field[1])

\* the display names requests carry: the first two slug alike
CrudNames == {<<"a", " ", "1">>, <<"a", "1">>, <<"A">>}

\* the bodies of POST /items
CreateItemBodies(load) ==
    [name : IF load = "race" THEN {<< <<"A">> >>} ELSE {<<n>> : n \in CrudNames},
     is_raw_material : IF load = "sequential" THEN {<<TRUE>>, <<FALSE>>} ELSE {<<FALSE>>},
     description : IF load = "sequential"
                   THEN {<<>>, <<JsonString("d")>>, <<JsonNumber>>} ELSE {<<>>},
     image_url : {<<>>}]

\* the bodies of PUT /items/{id}
UpdateItemBodies(load) ==
    [name : IF load = "race" THEN {<<>>, << <<"a", "1">> >>}
            ELSE {<<>>} \cup {<<n>> : n \in CrudNames},
     is_raw_material : IF load = "sequential" THEN {<<>>, <<TRUE>>, <<FALSE>>}
                       ELSE IF load = "race" THEN {<<>>, <<TRUE>>}
                       ELSE {<<>>},
     description : IF load = "sequential"
                   THEN {<<>>, <<JsonNull>>, <<JsonString("d")>>, <<JsonNumber>>}
                   ELSE {<<>>},
     image_url : {<<>>}]

\* json.Decode of an item body fails
ItemBodyDecodeFails(body) ==
    NullStringDecodeFails(body.description) \/ NullStringDecodeFails(body.image_url)

\* the {itemID} / {methodID} path parameters requests carry
PathIDs == {<<"1">>, <<"2">>, <<"x">>}

\* strconv.ParseUint(s, 10, 64): one or more digits, no sign
ParseUint(s) ==
    LET ok == s # <<>> /\ \A i \in 1..Len(s) : s[i] \in {"0", "1", "2"}
    IN  [ok |-> ok, val |-> IF ok THEN DigitsValue(s, 0) ELSE 0]

\* json.Decode into CreateItemRequest
DecodeCreateItemRequest(body) ==
    [Name |-> IF body.name = <<>> THEN <<>> ELSE body.name[1],
     IsRawMaterial |-> IF body.is_raw_material = <<>> THEN FALSE
                       ELSE body.is_raw_material[1],
     Description |-> DecodeNullString(body.description),
     ImageURL |-> DecodeNullString(body.image_url)]

\* json.Decode into UpdateItemRequest: Name and IsRawMaterial are pointers
DecodeUpdateItemRequest(body) ==
    [Name |-> body.name,
     IsRawMaterial |-> body.is_raw_material,
     Description |-> DecodeNullString(body.description),
     ImageURL |-> DecodeNullString(body.image_url)]

(***************************************************************************)
(* Errors, by the kind errors.Is finds in them.                            *)
(***************************************************************************)
NoError == "nil"
ErrNotFound == "ErrNotFound"
ErrDuplicateEntry == "ErrDuplicateEntry"
OtherError == "other"

\* what ends a request before the service is called
BadID == "id"
BadBody == "decode"
Invalid == "validation"

\* fmt.Errorf("...: %w", err): the kind of the wrapped error is kept
Wrap(err) == err

(***************************************************************************)
(* Errors as values: the chain errors.Unwrap walks, outermost first.  A    *)
(* layer is a message fmt.Errorf has put around, one of the two sentinel   *)
(* errors, or an error of the driver.                                      *)
(***************************************************************************)
Nil == <<>>
Context == "context"
DriverErrors == {"mysql 1062", "mysql", "bad connection", "context canceled"}

\* a plausible slip: %v in the place of %w keeps only the text
ErrorfV(err) == <<Context>>

\* fmt.Errorf("...: %w", err)
Errorf(err) == <<Context>> \o err

\* errors.Is(err, target)
ErrorsIs(err, target) == \E i \in 1..Len(err) : err[i] = target

\* the errors the store methods return, from their return statements
StoreErrors(resource, op) ==
    LET failed == {<<Context, d>> : d \in DriverErrors \ {"mysql 1062"}}
    IN  CASE op = "create" -> {<<Context, ErrDuplicateEntry>>} \cup failed
          [] op = "get" -> {<<ErrNotFound>>} \cup failed
          [] op = "update" /\ resource = "item" ->
                {<<Context, ErrDuplicateEntry>>, <<ErrNotFound>>} \cup failed
          [] op = "update" /\ resource = "method" ->
                {<<Context, "mysql 1062">>, <<ErrNotFound>>} \cup failed
          [] op = "delete" -> {<<ErrNotFound>>} \cup failed
          [] op = "list" -> failed

\* the store calls of the service methods: the method, the store
\* operation, and whether the call is the fetch after a successful write
ServiceSites ==
    {[resource |-> r, method |-> c[1], op |-> c[2], refetch |-> c[3]] :
        r \in {"item", "method"},
        c \in {<<"Create", "create", FALSE>>, <<"Create", "get", TRUE>>,
               <<"Update", "get", FALSE>>, <<"Update", "update", FALSE>>,
               <<"Update", "get", TRUE>>, <<"Delete", "delete", FALSE>>,
               <<"GetByID", "get", FALSE>>, <<"List", "list", FALSE>>}}

\* what the service method returns when the store call at the site fails:
\* the error wrapped with %w, or success with the in-memory entity after
\* the fetch that follows a write
ServiceReturn(site, err) == IF site.refetch THEN Nil ELSE Errorf(err)

(***************************************************************************)
(* The items table and mysqlItemStore.                                     *)
(***************************************************************************)
\* a plausible slip: slug declared without UNIQUE
ItemUniqueViolatedNameOnly(table, row) ==
    \E r \in table : r.ID # row.ID /\ CollationKey(r.Name) = CollationKey(row.Name)

\* the UNIQUE constraints on name and slug, against every other row
ItemUniqueViolated(table, row) ==
    \E r \in table :
        /\ r.ID # row.ID
        /\ \/ CollationKey(r.Name) = CollationKey(row.Name)
           \/ CollationKey(r.Slug) = CollationKey(row.Slug)

\* a plausible slip: the duplicate-key error is wrapped without the kind
ItemInsertErrorUnmapped(violated) == IF violated THEN OtherError ELSE NoError

\* CreateItem: MySQL error 1062 becomes ErrDuplicateEntry
ItemInsertError(violated) == IF violated THEN ErrDuplicateEntry ELSE NoError

\* a plausible slip: created_at in the SET list as well
ItemRowAfterUpdateRestamped(row, item) ==
    [row EXCEPT !.Name = item.Name, !.Slug = item.Slug,
                !.IsRawMaterial = item.IsRawMaterial,
                !.Description = item.Description, !.ImageURL = item.ImageURL,
                !.CreatedAt = item.UpdatedAt, !.UpdatedAt = item.UpdatedAt]

\* the row UPDATE items SET ... WHERE id = :id leaves
ItemRowAfterUpdate(row, item) ==
    [row EXCEPT !.Name = item.Name, !.Slug = item.Slug,
                !.IsRawMaterial = item.IsRawMaterial,
                !.Description = item.Description, !.ImageURL = item.ImageURL,
                !.UpdatedAt = item.UpdatedAt]

\* UpdateItem's result: 1062 becomes ErrDuplicateEntry; no row affected (no
\* row of that id, or a row the statement leaves as it is) is ErrNotFound
ItemUpdateError(table, item) ==
    IF \A r \in table : r.ID # item.ID THEN ErrNotFound
    ELSE IF ItemUniqueViolated(table, item) THEN ErrDuplicateEntry
    ELSE IF \E r \in table : r.ID = item.ID /\ ItemRowAfterUpdate(r, item) = r
         THEN ErrNotFound
    ELSE NoError

\* a plausible slip: the statement without its WHERE clause, the first row
\* scanned
FindByIDUnfiltered(table, id) ==
    IF table # {} THEN <<CHOOSE r \in table : \A q \in table : r.ID <= q.ID>> ELSE <<>>

\* GetItemByID: the row, or none (sql.ErrNoRows, returned as ErrNotFound)
FindByID(table, id) ==
    IF \E r \in table : r.ID = id
    THEN <<CHOOSE r \in table : r.ID = id>>
    ELSE <<>>

(***************************************************************************)
(* itemServiceImpl.                                                        *)
(***************************************************************************)
\* a plausible slip: the failure of the fetch after the write is returned
AfterWriteFetchFatal(fetchErr, found, entity) ==
    [err |-> fetchErr, ret |-> IF fetchErr = NoError THEN found ELSE <<>>]

\* the end of CreateItem, UpdateItem and their crafting-method twins: the
\* row fetched after the write, or on any error of that fetch a warning and
\* the entity the service holds
AfterWriteFetch(fetchErr, found, entity) ==
    [err |-> NoError, ret |-> IF fetchErr = NoError THEN found ELSE entity]

\* newItem, before the store has seen it
NewItem(req) ==
    [ID |-> 0, Name |-> req.Name, Slug |-> generateSlug(req.Name),
     IsRawMaterial |-> req.IsRawMaterial, Description |-> req.Description,
     ImageURL |-> req.ImageURL, CreatedAt |-> 0, UpdatedAt |-> 0]

\* a plausible slip: the slug is left as it was when the name changes
SlugKeptOnRename(oldSlug, newName) == oldSlug

\* existingItem.Slug = generateSlug(existingItem.Name)
SlugOnRename(oldSlug, newName) == generateSlug(newName)

\* step 2 of UpdateItem: the merged item and the updated flag
MergeItem(existing, req) ==
    LET rename == req.Name # <<>> /\ req.Name[1] # existing.Name
        reflag == /\ req.IsRawMaterial # <<>>
                  /\ req.IsRawMaterial[1] # existing.IsRawMaterial
        redescribe == req.Description # existing.Description
        reimage == req.ImageURL # existing.ImageURL
    IN  [item |->
            [existing EXCEPT
                !.Name = IF rename THEN req.Name[1] ELSE @,
                !.Slug = IF rename THEN SlugOnRename(@, req.Name[1]) ELSE @,
                !.IsRawMaterial = IF reflag THEN req.IsRawMaterial[1] ELSE @,
                !.Description = IF redescribe THEN req.Description ELSE @,
                !.ImageURL = IF reimage THEN req.ImageURL ELSE @],
         updated |-> rename \/ reflag \/ redescribe \/ reimage]

(***************************************************************************)
(* The crafting_methods table, mysqlCraftingMethodStore and the service.   *)
(***************************************************************************)
\* the bodies of POST /crafting-methods and PUT /crafting-methods/{id}
CreateMethodBodies(load) ==
    [name : {<<>>} \cup {<<n>> : n \in CrudNames},
     description : IF load = "sequential"
                   THEN {<<>>, <<JsonString("d")>>, <<JsonNumber>>} ELSE {<<>>}]

UpdateMethodBodies(load) ==
    [name : {<<>>} \cup {<<n>> : n \in CrudNames},
     description : IF load = "sequential"
                   THEN {<<>>, <<JsonNull>>, <<JsonString("d")>>, <<JsonNumber>>}
                   ELSE {<<>>}]

\* json.Decode of a crafting method body fails
MethodBodyDecodeFails(body) == NullStringDecodeFails(body.description)

\* json.Decode into CreateCraftingMethodRequest
DecodeCreateMethodRequest(body) ==
    [Name |-> IF body.name = <<>> THEN <<>> ELSE body.name[1],
     Description |-> DecodeNullString(body.description)]

\* validate:"required" on Name: a string must not be empty
CreateMethodRequestValid(req) == req.Name # <<>>

\* validate:"required" on the *string Name: the pointer is not nil
UpdateMethodRequestValid(body) == body.name # <<>>

MethodUniqueViolated(table, row) ==
    \E r \in table :
        /\ r.ID # row.ID
        /\ \/ CollationKey(r.Name) = CollationKey(row.Name)
           \/ CollationKey(r.Slug) = CollationKey(row.Slug)

\* CreateCraftingMethod: MySQL error 1062 becomes ErrDuplicateEntry
MethodInsertError(violated) == IF violated THEN ErrDuplicateEntry ELSE NoError

\* GetCraftingMethodByID hands "... WHERE id = :id;" with a positional
\* argument to GetContext, which does not bind names: MySQL rejects the
\* statement, whatever the table holds, and the error is not sql.ErrNoRows
MethodFetchError(table, id) == OtherError

\* the row UPDATE crafting_methods SET ... WHERE id = :id leaves
MethodRowAfterUpdate(row, method) ==
    [row EXCEPT !.Name = method.Name, !.Slug = method.Slug,
                !.Description = method.Description,
                !.UpdatedAt = method.UpdatedAt]

\* UpdateCraftingMethod's result: error 1062 is wrapped as it is, without
\* ErrDuplicateEntry; no row affected is ErrNotFound
MethodUpdateError(table, method) ==
    IF \A r \in table : r.ID # method.ID THEN ErrNotFound
    ELSE IF MethodUniqueViolated(table, method) THEN OtherError
    ELSE IF \E r \in table : r.ID = method.ID /\ MethodRowAfterUpdate(r, method) = r
         THEN ErrNotFound
    ELSE NoError

\* newMethod, before the store has seen it
NewMethod(req) ==
    [ID |-> 0, Name |-> req.Name, Slug |-> generateCraftingMethodSlug(req.Name),
     Description |-> req.Description, CreatedAt |-> 0, UpdatedAt |-> 0]

(***************************************************************************)
(* The handlers' status codes.                                             *)
(***************************************************************************)
CreateStatus(err) ==
    IF err = NoError THEN 201
    ELSE IF err = ErrDuplicateEntry THEN 409
    ELSE 500

UpdateStatus(err) ==
    IF err = NoError THEN 200
    ELSE IF err = ErrNotFound THEN 404
    ELSE IF err = ErrDuplicateEntry THEN 409
    ELSE 500

\* a plausible slip: a successful delete answers 200
DeleteStatusOK(err) ==
    IF err = NoError THEN 200
    ELSE IF err = ErrNotFound THEN 404
    ELSE 500

DeleteStatus(err) ==
    IF err = NoError THEN 204
    ELSE IF err = ErrNotFound THEN 404
    ELSE 500

GetStatus(err) ==
    IF err = NoError THEN 200
    ELSE IF err = ErrNotFound THEN 404
    ELSE 500

(***************************************************************************)
(* Direct calls of the stores' updates, on the tables of the list calls    *)
(* (crafting methods have the same rows without the item-only columns).    *)
(***************************************************************************)
StoreMethodRow(i) ==
    [ID |-> i, Name |-> StoreRowName(i), Slug |-> generateSlug(StoreRowName(i)),
     Description |-> NullString, CreatedAt |-> StoreRow(i).CreatedAt,
     UpdatedAt |-> StoreRow(i).UpdatedAt]

StoreMethodTables ==
    {{StoreMethodRow(i) : i \in ids} : ids \in SUBSET (1..MaxListRows)}

\* the names the entities handed to the updates carry
StoreWriteNames == {<<"a">>, <<"A">>, <<"b">>, <<"a", "!">>, <<"1">>}

\* the structs the services hand over: a row fetched earlier with a new name
\* and the slug of that name
ItemsToWrite ==
    {[StoreRow(i) EXCEPT !.Name = n, !.Slug = generateSlug(n)] :
        i \in 1..MaxListRows, n \in StoreWriteNames}

MethodsToWrite ==
    {[StoreMethodRow(i) EXCEPT !.Name = n, !.Slug = generateSlug(n)] :
        i \in 1..MaxListRows, n \in StoreWriteNames}

\* time.Now() of a direct call: later than every timestamp in the table
StoreNow == MaxListRows + 3

(***************************************************************************)
(* Request slots.                                                          *)
(***************************************************************************)
Slots == {"r1", "r2"}

\* the slots that serve requests under a workload
ActiveSlots(load) == IF load = "sequential" THEN {"r1"} ELSE Slots

IdleSlot ==
    [pc |-> "idle", op |-> "none", id |-> 0, body |-> <<>>, fetched |-> <<>>,
     ent |-> <<>>, outcome |-> "none", status |-> 0, ret |-> <<>>]

(***************************************************************************)
(* State.                                                                  *)
(***************************************************************************)
VARIABLES
    \* --- a call of the slug generators ---
    slugPc,        \* "call" before the call, "done" after it
    slugName,      \* the name handed to the generators
    slugItem,      \* generateSlug(name)
    slugMethod,    \* generateCraftingMethodSlug(name)
    slugAgain,     \* generateSlug applied to its own result
    \* --- a direct call of NewPaginatedResponse ---
    bPc,           \* "call" before the call, "done" after it
    bData,         \* the arguments
    bTotal,
    bPage,
    bPerPage,
    bResp,         \* the PaginatedResponse returned
    \* --- a GET /items request on an unchanging table ---
    lsPc,          \* "parse", "list", "done"
    lsQuery,       \* the query parameters
    lsTable,       \* the rows of the items table
    lsParams,      \* what ParseListParams returned
    lsStatus,      \* the status answered, 0 before the answer
    lsBody,        \* the body answered
    \* --- a direct call of the item store's ListItems ---
    stPc,          \* "call" before the call, "done" after it
    stTable,       \* the rows of the items table
    stParams,      \* the ListParams handed over
    stResult,      \* the rows and the total returned, the statements sent
    \* --- a service method receiving an error from one of its store calls ---
    svPc,          \* "call" while the store call is out, "done" after the return
    svSite,        \* the service method and which of its store calls it is
    svErr,         \* the error the store call returns
    svRet,         \* the error the service method returns (nil: success)
    \* --- deletes on a database that holds recipes ---
    dbItems,       \* the ids in items
    dbMethods,     \* the ids in crafting_methods
    dbRecipes,     \* the rows of recipes: id, crafting_method_id
    dbInputs,      \* the rows of recipe_inputs: recipe_id, input_item_id
    dbOutputs,     \* the rows of recipe_outputs: recipe_id, item_id
    dbLast,        \* the latest delete request: its id, error kind and status
    \* --- requests on the tables ---
    workload,      \* "sequential": one request at a time, bodies with every
                   \* field; "concurrent": two at a time, name and flag only;
                   \* "race": two at a time on one item, updates of its
                   \* name or of its flag
    resource,      \* the resource the requests are for: "item" or "method"
    items,         \* the rows of the items table
    methods,       \* the rows of the crafting_methods table
    nextItemID,    \* the tables' AUTO_INCREMENT counters
    nextMethodID,
    clock,         \* the time of the latest write, as time.Now() gave it
    slot           \* per request slot: where the request is, its locals, the
                   \* outcome (the service's error or what came before it)
                   \* and the status answered

slugVars == <<slugPc, slugName, slugItem, slugMethod, slugAgain>>

builderVars == <<bPc, bData, bTotal, bPage, bPerPage, bResp>>

listVars == <<lsPc, lsQuery, lsTable, lsParams, lsStatus, lsBody>>

storeVars == <<stPc, stTable, stParams, stResult>>

serviceVars == <<svPc, svSite, svErr, svRet>>

dbVars == <<dbItems, dbMethods, dbRecipes, dbInputs, dbOutputs, dbLast>>

crudVars ==
    <<workload, resource, items, methods, nextItemID, nextMethodID, clock, slot>>

vars == <<slugVars, builderVars, listVars, storeVars, serviceVars, dbVars, crudVars>>

(***************************************************************************)
(* The slug generators, called on every bounded name.                      *)
(***************************************************************************)
SlugInit ==
    /\ slugPc = "call"
    /\ slugName \in SlugInputs
    /\ slugItem = <<>>
    /\ slugMethod = <<>>
    /\ slugAgain = <<>>

SlugIdle ==
    /\ slugPc = "off"
    /\ slugName = <<>>
    /\ slugItem = <<>>
    /\ slugMethod = <<>>
    /\ slugAgain = <<>>

CallGenerateSlug ==
    /\ slugPc = "call"
    /\ slugPc' = "done"
    /\ slugItem' = generateSlug(slugName)
    /\ slugMethod' = generateCraftingMethodSlug(slugName)
    /\ slugAgain' = generateSlug(generateSlug(slugName))
    /\ UNCHANGED slugName

(***************************************************************************)
(* NewPaginatedResponse, called on every bounded argument tuple.           *)
(***************************************************************************)
BuilderInit ==
    /\ bPc = "call"
    /\ bData \in DataArgs
    /\ bTotal \in 0..MaxTotalArg
    /\ bPage \in -1..MaxPageArg
    /\ bPerPage \in -1..MaxPerPageArg
    /\ bResp = NoResponse

BuilderIdle ==
    /\ bPc = "off"
    /\ bData = <<>>
    /\ bTotal = 0
    /\ bPage = 0
    /\ bPerPage = 0
    /\ bResp = NoResponse

CallNewPaginatedResponse ==
    /\ bPc = "call"
    /\ bPc' = "done"
    /\ bResp' = NewPaginatedResponse(bData, bTotal, bPage, bPerPage)
    /\ UNCHANGED <<bData, bTotal, bPage, bPerPage>>

(***************************************************************************)
(* The list handler, on every bounded query and table.                     *)
(***************************************************************************)
ListInit ==
    /\ lsPc = "parse"
    /\ lsQuery \in Queries
    /\ lsTable \in ListTables
    /\ lsParams = ZeroListParams
    /\ lsStatus = 0
    /\ lsBody = NoResponse

ListIdle ==
    /\ lsPc = "off"
    /\ lsQuery = [page |-> <<>>, per_page |-> <<>>, sort |-> <<>>, name |-> <<>>,
                  is_raw_material |-> <<>>, other |-> <<>>]
    /\ lsTable = {}
    /\ lsParams = ZeroListParams
    /\ lsStatus = 0
    /\ lsBody = NoResponse

\* the handler parses the query and answers 400 when that fails
ListParse ==
    /\ lsPc = "parse"
    /\ lsParams' = ParseListParams(lsQuery)
    /\ IF lsParams'.err
       THEN lsPc' = "done" /\ lsStatus' = 400
       ELSE lsPc' = "list" /\ lsStatus' = 0
    /\ UNCHANGED <<lsQuery, lsTable, lsBody>>

\* the service lists and the handler answers 200
ListRun ==
    /\ lsPc = "list"
    /\ lsPc' = "done"
    /\ lsStatus' = 200
    /\ lsBody' = ServiceListItems(lsTable, lsParams)
    /\ UNCHANGED <<lsQuery, lsTable, lsParams>>

(***************************************************************************)
(* The store's list, on every bounded table and parameter record.          *)
(***************************************************************************)
StoreInit ==
    /\ stResult = NoResult
    /\ \/ stPc = "call" /\ stTable \in StoreTables /\ stParams \in StoreParams
       \/ stPc = "update_item" /\ stTable \in StoreTables /\ stParams \in ItemsToWrite
       \/ /\ stPc = "update_method"
          /\ stTable \in StoreMethodTables
          /\ stParams \in MethodsToWrite

StoreIdle ==
    /\ stPc = "off"
    /\ stTable = {}
    /\ stParams = ZeroListParams
    /\ stResult = NoResult

CallListItems ==
    /\ stPc = "call"
    /\ stPc' = "done"
    /\ stResult' = StoreListItems(stTable, stParams)
    /\ UNCHANGED <<stTable, stParams>>

\* mysqlItemStore.UpdateItem, and the status the update handler gives its
\* error
CallUpdateItem ==
    /\ stPc = "update_item"
    /\ stPc' = "updated"
    /\ LET item == [stParams EXCEPT !.UpdatedAt = StoreNow]
           err == ItemUpdateError(stTable, item)
       IN  /\ stResult' = [err |-> err, status |-> UpdateStatus(Wrap(err))]
           /\ stParams' = item
           /\ stTable' = IF err # NoError THEN stTable
                         ELSE {IF r.ID = item.ID THEN ItemRowAfterUpdate(r, item) ELSE r :
                                  r \in stTable}

\* mysqlCraftingMethodStore.UpdateCraftingMethod, likewise
CallUpdateCraftingMethod ==
    /\ stPc = "update_method"
    /\ stPc' = "updated"
    /\ LET method == [stParams EXCEPT !.UpdatedAt = StoreNow]
           err == MethodUpdateError(stTable, method)
       IN  /\ stResult' = [err |-> err, status |-> UpdateStatus(Wrap(err))]
           /\ stParams' = method
           /\ stTable' = IF err # NoError THEN stTable
                         ELSE {IF r.ID = method.ID THEN MethodRowAfterUpdate(r, method)
                               ELSE r : r \in stTable}

(***************************************************************************)
(* The foreign keys of the schema and the two DELETE statements.           *)
(***************************************************************************)
\* a plausible slip: fk_recipes_crafting_method without a referential action
\* that is enforced
MethodDeleteUnrestricted(recipes, id) == FALSE

\* fk_recipes_crafting_method ... ON DELETE RESTRICT: the DELETE of a
\* referenced crafting method is rejected
MethodDeleteRestricted(recipes, id) == \E r \in recipes : r.crafting_method_id = id

\* fk_recipe_inputs_item / fk_recipe_outputs_item ... ON DELETE CASCADE: the
\* link rows that stay when the item goes
LinksAfterItemDelete(links, id) == {l \in links : l.item_id # id}

\* DeleteCraftingMethod: the driver's error wrapped, or ErrNotFound when no
\* row is affected
MethodDeleteError(methodIDs, recipes, id) ==
    IF id \notin methodIDs THEN ErrNotFound
    ELSE IF MethodDeleteRestricted(recipes, id) THEN OtherError
    ELSE NoError

\* DeleteItem: ErrNotFound when no row is affected
ItemDeleteError(itemIDs, id) == IF id \notin itemIDs THEN ErrNotFound ELSE NoError

\* the databases the deletes start from: every reference names a stored row
Databases ==
    {[items |-> 1..MaxDbID, methods |-> 1..MaxDbID, recipes |-> rs,
      inputs |-> ins, outputs |-> outs] :
        rs \in {{[id |-> i, crafting_method_id |-> m[i]] : i \in ids} :
                  ids \in SUBSET (1..MaxRecipeID),
                  m \in [1..MaxRecipeID -> 1..MaxDbID]},
        ins \in SUBSET [recipe_id : 1..MaxRecipeID, item_id : 1..MaxDbID],
        outs \in SUBSET [recipe_id : 1..MaxRecipeID, item_id : 1..MaxDbID]}

NoRequest == [op |-> "none", id |-> 0, err |-> NoError, status |-> 0]

DbInit ==
    /\ \E db \in Databases :
          /\ \A l \in db.inputs \cup db.outputs :
                \E r \in db.recipes : r.id = l.recipe_id
          /\ dbItems = db.items
          /\ dbMethods = db.methods
          /\ dbRecipes = db.recipes
          /\ dbInputs = db.inputs
          /\ dbOutputs = db.outputs
    /\ dbLast = NoRequest

DbIdle ==
    /\ dbItems = {}
    /\ dbMethods = {}
    /\ dbRecipes = {}
    /\ dbInputs = {}
    /\ dbOutputs = {}
    /\ dbLast = NoRequest

\* DELETE /items/{id}
DbDeleteItem ==
    \E id \in 1..MaxDbID :
        LET err == ItemDeleteError(dbItems, id)
        IN  /\ dbLast' = [op |-> "delete_item", id |-> id, err |-> Wrap(err),
                          status |-> DeleteStatus(Wrap(err))]
            /\ dbItems' = dbItems \ {id}
            /\ dbInputs' = LinksAfterItemDelete(dbInputs, id)
            /\ dbOutputs' = LinksAfterItemDelete(dbOutputs, id)
            /\ UNCHANGED <<dbMethods, dbRecipes>>

\* DELETE /crafting-methods/{id}
DbDeleteCraftingMethod ==
    \E id \in 1..MaxDbID :
        LET err == MethodDeleteError(dbMethods, dbRecipes, id)
        IN  /\ dbLast' = [op |-> "delete_method", id |-> id, err |-> Wrap(err),
                          status |-> DeleteStatus(Wrap(err))]
            /\ dbMethods' = IF err = NoError THEN dbMethods \ {id} ELSE dbMethods
            /\ UNCHANGED <<dbItems, dbRecipes, dbInputs, dbOutputs>>

(***************************************************************************)
(* A service method and the error of one of its store calls.               *)
(***************************************************************************)
ServiceInit ==
    /\ svPc = "call"
    /\ svSite \in ServiceSites
    /\ svErr \in StoreErrors(svSite.resource, svSite.op)
    /\ svRet = Nil

ServiceIdle ==
    /\ svPc = "off"
    /\ svSite = [resource |-> "none", method |-> "none", op |-> "none",
                 refetch |-> FALSE]
    /\ svErr = Nil
    /\ svRet = Nil

StoreCallFails ==
    /\ svPc = "call"
    /\ svPc' = "done"
    /\ svRet' = ServiceReturn(svSite, svErr)
    /\ UNCHANGED <<svSite, svErr>>

(***************************************************************************)
(* Requests on the tables.  A step runs a request from where it stands up  *)
(* to and including its next statement on the database; the answer is part *)
(* of the request's last step.                                             *)
(***************************************************************************)
CrudInit ==
    /\ workload \in {"sequential", "concurrent", "race"}
    /\ resource \in {"item", "method"}
    /\ workload = "race" => resource = "item"
    /\ items = {}
    /\ methods = {}
    /\ nextItemID = 1
    /\ nextMethodID = 1
    /\ clock = 1
    /\ slot = [p \in Slots |-> IdleSlot]

CrudIdle ==
    /\ workload = "off"
    /\ resource = "none"
    /\ items = {}
    /\ methods = {}
    /\ nextItemID = 1
    /\ nextMethodID = 1
    /\ clock = 1
    /\ slot = [p \in Slots |-> IdleSlot]

\* the slot may take a new request for the resource
CanStart(p, res) ==
    /\ resource = res
    /\ p \in ActiveSlots(workload)
    /\ slot[p].pc = "idle"

\* the request ends with this outcome and this answer
Answer(p, op, outcome, status, ret) ==
    [slot[p] EXCEPT !.pc = "done", !.op = op, !.outcome = outcome,
                    !.status = status, !.ret = ret]

\* the request ends before the service is called
Refuse(p, op, outcome, status) ==
    [slot EXCEPT ![p] = Answer(p, op, outcome, status, <<>>)]

\* time passes; the requests of the concurrent workload fall within one
\* second, the resolution of the TIMESTAMP columns
Tick ==
    /\ workload = "sequential"
    /\ clock < MaxClock
    /\ clock' = clock + 1
    /\ UNCHANGED <<slugVars, builderVars, listVars, storeVars, serviceVars, dbVars,
                   workload, resource, items, methods, nextItemID, nextMethodID, slot>>

\* POST /items up to the INSERT
ItemCreate(p) ==
    /\ CanStart(p, "item")
    /\ \E body \in CreateItemBodies(workload) :
          LET req == DecodeCreateItemRequest(body)
              newItem == [NewItem(req) EXCEPT !.CreatedAt = clock, !.UpdatedAt = clock]
              err == ItemInsertError(ItemUniqueViolated(items, newItem))
              row == [newItem EXCEPT !.ID = nextItemID]
          IN  IF ItemBodyDecodeFails(body)
              THEN /\ slot' = [slot EXCEPT ![p] =
                          [Answer(p, "create", BadBody, 400, <<>>)
                              EXCEPT !.body = <<body>>]]
                   /\ UNCHANGED <<items, nextItemID>>
              ELSE IF err # NoError
              THEN /\ slot' = [slot EXCEPT ![p] =
                          [Answer(p, "create", Wrap(err), CreateStatus(Wrap(err)), <<>>)
                              EXCEPT !.body = <<body>>]]
                   /\ UNCHANGED <<items, nextItemID>>
              ELSE /\ nextItemID <= MaxID
                   /\ items' = items \cup {row}
                   /\ nextItemID' = nextItemID + 1
                   /\ slot' = [slot EXCEPT
                          ![p] = [@ EXCEPT !.pc = "create_fetch", !.op = "create",
                                           !.id = row.ID, !.body = <<body>>,
                                           !.ent = <<row>>]]
    /\ UNCHANGED <<slugVars, builderVars, listVars, storeVars, serviceVars, dbVars,
                   workload, resource, methods, nextMethodID, clock>>

\* POST /items: the fetch after the INSERT, and the answer
ItemCreateFetch(p) ==
    /\ resource = "item"
    /\ slot[p].pc = "create_fetch"
    /\ LET found == FindByID(items, slot[p].id)
           got == AfterWriteFetch(IF found = <<>> THEN ErrNotFound ELSE NoError,
                                  found, slot[p].ent)
       IN  slot' = [slot EXCEPT
              ![p] = Answer(p, "create", Wrap(got.err), CreateStatus(Wrap(got.err)),
                            got.ret)]
    /\ UNCHANGED <<slugVars, builderVars, listVars, storeVars, serviceVars, dbVars,
                   workload, resource, items, methods, nextItemID, nextMethodID, clock>>

\* PUT /items/{id} up to the first SELECT, and the merge that follows it
ItemUpdateFetch(p) ==
    /\ CanStart(p, "item")
    /\ \E path \in PathIDs, body \in UpdateItemBodies(workload) :
          LET id == ParseUint(path)
              found == FindByID(items, id.val)
              merged == MergeItem(found[1], DecodeUpdateItemRequest(body))
              begun == [slot[p] EXCEPT !.op = "update", !.id = id.val,
                                       !.body = <<body>>, !.fetched = found]
          IN  IF ~id.ok THEN slot' = Refuse(p, "update", BadID, 400)
              ELSE IF ItemBodyDecodeFails(body)
              THEN slot' = [slot EXCEPT ![p] =
                      [Answer(p, "update", BadBody, 400, <<>>)
                          EXCEPT !.id = id.val, !.body = <<body>>]]
              ELSE slot' = [slot EXCEPT ![p] =
                 IF found = <<>>
                 THEN [begun EXCEPT !.pc = "done", !.outcome = Wrap(ErrNotFound),
                                    !.status = UpdateStatus(Wrap(ErrNotFound))]
                 ELSE IF ~merged.updated
                 THEN [begun EXCEPT !.pc = "done", !.outcome = NoError,
                                    !.status = UpdateStatus(NoError),
                                    !.ret = <<merged.item>>]
                 ELSE [begun EXCEPT !.pc = "update_write", !.ent = <<merged.item>>]]
    /\ UNCHANGED <<slugVars, builderVars, listVars, storeVars, serviceVars, dbVars,
                   workload, resource, items, methods, nextItemID, nextMethodID, clock>>

\* PUT /items/{id}: the UPDATE
ItemUpdateWrite(p) ==
    /\ resource = "item"
    /\ slot[p].pc = "update_write"
    /\ LET item == [slot[p].ent[1] EXCEPT !.UpdatedAt = clock]
           err == ItemUpdateError(items, item)
       IN  IF err # NoError
           THEN /\ slot' = [slot EXCEPT ![p] =
                       [@ EXCEPT !.pc = "done", !.ent = <<item>>,
                                 !.outcome = Wrap(err),
                                 !.status = UpdateStatus(Wrap(err))]]
                /\ UNCHANGED items
           ELSE /\ items' = {IF r.ID = item.ID THEN ItemRowAfterUpdate(r, item) ELSE r :
                                r \in items}
                /\ slot' = [slot EXCEPT ![p] =
                       [@ EXCEPT !.pc = "update_refetch", !.ent = <<item>>]]
    /\ UNCHANGED <<slugVars, builderVars, listVars, storeVars, serviceVars, dbVars,
                   workload, resource, methods, nextItemID, nextMethodID, clock>>

\* PUT /items/{id}: the fetch after the UPDATE, and the answer
ItemUpdateRefetch(p) ==
    /\ resource = "item"
    /\ slot[p].pc = "update_refetch"
    /\ LET found == FindByID(items, slot[p].id)
           got == AfterWriteFetch(IF found = <<>> THEN ErrNotFound ELSE NoError,
                                  found, slot[p].ent)
       IN  slot' = [slot EXCEPT ![p] =
              [@ EXCEPT !.pc = "done", !.outcome = Wrap(got.err),
                        !.status = UpdateStatus(Wrap(got.err)),
                        !.ret = got.ret]]
    /\ UNCHANGED <<slugVars, builderVars, listVars, storeVars, serviceVars, dbVars,
                   workload, resource, items, methods, nextItemID, nextMethodID, clock>>

\* DELETE /items/{id}
ItemDelete(p) ==
    /\ CanStart(p, "item")
    /\ \E path \in PathIDs :
          LET id == ParseUint(path)
              found == FindByID(items, id.val)
              err == IF found = <<>> THEN ErrNotFound ELSE NoError
          IN  IF ~id.ok
              THEN /\ slot' = Refuse(p, "delete", BadID, 400)
                   /\ UNCHANGED items
              ELSE /\ items' = {r \in items : r.ID # id.val}
                   /\ slot' = [slot EXCEPT ![p] =
                          [Answer(p, "delete", Wrap(err), DeleteStatus(Wrap(err)), <<>>)
                              EXCEPT !.id = id.val]]
    /\ UNCHANGED <<slugVars, builderVars, listVars, storeVars, serviceVars, dbVars,
                   workload, resource, methods, nextItemID, nextMethodID, clock>>

\* GET /items/{id}
ItemGet(p) ==
    /\ CanStart(p, "item")
    /\ \E path \in PathIDs :
          LET id == ParseUint(path)
              found == FindByID(items, id.val)
              err == IF found = <<>> THEN ErrNotFound ELSE NoError
          IN  IF ~id.ok THEN slot' = Refuse(p, "get", BadID, 400)
              ELSE slot' = [slot EXCEPT ![p] =
                      [Answer(p, "get", Wrap(err), GetStatus(Wrap(err)), found)
                          EXCEPT !.id = id.val]]
    /\ UNCHANGED <<slugVars, builderVars, listVars, storeVars, serviceVars, dbVars,
                   workload, resource, items, methods, nextItemID, nextMethodID, clock>>

\* the queries of GET /items on the tables the requests write: a name
\* filter, a flag filter, the default page and order
CrudListQueries ==
    [page : {<<>>}, per_page : {<<>>}, sort : {<<>>},
     name : {<<>>, << <<"a">> >>, << <<"1">> >>, << <<"a", "1">> >>},
     is_raw_material : BoolQueryValues,
     other : {<<>>}]

\* GET /items up to the count statement; a total of 0 is answered at once
ItemListCount(p) ==
    /\ CanStart(p, "item")
    /\ \E query \in CrudListQueries :
          LET params == ParseListParams(query)
              total == CountItems(items, params.Filters)
              begun == [slot[p] EXCEPT !.op = "list", !.body = <<query>>]
          IN  slot' = [slot EXCEPT ![p] =
                 IF params.err
                 THEN [begun EXCEPT !.pc = "done", !.outcome = BadBody, !.status = 400,
                                    !.ret = <<NoResponse>>]
                 ELSE IF total = 0
                 THEN [begun EXCEPT !.pc = "done", !.outcome = NoError, !.status = 200,
                                    !.ret = <<NewPaginatedResponse(<<>>, 0, params.Page,
                                                                   params.PerPage)>>]
                 ELSE [begun EXCEPT !.pc = "list_select", !.ent = <<total>>]]
    /\ UNCHANGED <<slugVars, builderVars, listVars, storeVars, serviceVars, dbVars,
                   workload, resource, items, methods, nextItemID, nextMethodID, clock>>

\* GET /items: the select statement on the table as it is by then, and the
\* response built from its rows and the total counted before
ItemListSelect(p) ==
    /\ resource = "item"
    /\ slot[p].pc = "list_select"
    /\ LET params == ParseListParams(slot[p].body[1])
           data == SelectItems(items, params)
       IN  slot' = [slot EXCEPT ![p] =
              [@ EXCEPT !.pc = "done", !.outcome = NoError, !.status = 200,
                        !.ret = <<NewPaginatedResponse(data, slot[p].ent[1], params.Page,
                                                       params.PerPage)>>]]
    /\ UNCHANGED <<slugVars, builderVars, listVars, storeVars, serviceVars, dbVars,
                   workload, resource, items, methods, nextItemID, nextMethodID, clock>>

\* POST /crafting-methods up to the INSERT
MethodCreate(p) ==
    /\ CanStart(p, "method")
    /\ \E body \in CreateMethodBodies(workload) :
          LET req == DecodeCreateMethodRequest(body)
              newMethod == [NewMethod(req) EXCEPT !.CreatedAt = clock, !.UpdatedAt = clock]
              err == MethodInsertError(MethodUniqueViolated(methods, newMethod))
              row == [newMethod EXCEPT !.ID = nextMethodID]
              refused == IF MethodBodyDecodeFails(body) THEN BadBody
                         ELSE IF ~CreateMethodRequestValid(req) THEN Invalid
                         ELSE Wrap(err)
          IN  IF refused # NoError
              THEN /\ slot' = [slot EXCEPT ![p] =
                          [Answer(p, "create", refused,
                                  IF refused = BadBody THEN 400
                                  ELSE IF refused = Invalid THEN 422
                                  ELSE CreateStatus(refused), <<>>)
                              EXCEPT !.body = <<body>>]]
                   /\ UNCHANGED <<methods, nextMethodID>>
              ELSE /\ nextMethodID <= MaxID
                   /\ methods' = methods \cup {row}
                   /\ nextMethodID' = nextMethodID + 1
                   /\ slot' = [slot EXCEPT
                          ![p] = [@ EXCEPT !.pc = "create_fetch", !.op = "create",
                                           !.id = row.ID, !.body = <<body>>,
                                           !.ent = <<row>>]]
    /\ UNCHANGED <<slugVars, builderVars, listVars, storeVars, serviceVars, dbVars,
                   workload, resource, items, nextItemID, clock>>

\* POST /crafting-methods: the fetch after the INSERT fails, the service
\* logs a warning and returns newMethod
MethodCreateFetch(p) ==
    /\ resource = "method"
    /\ slot[p].pc = "create_fetch"
    /\ MethodFetchError(methods, slot[p].id) # NoError
    /\ LET got == AfterWriteFetch(MethodFetchError(methods, slot[p].id), <<>>,
                                  slot[p].ent)
       IN  slot' = [slot EXCEPT
              ![p] = Answer(p, "create", Wrap(got.err), CreateStatus(Wrap(got.err)),
                            got.ret)]
    /\ UNCHANGED <<slugVars, builderVars, listVars, storeVars, serviceVars, dbVars,
                   workload, resource, items, methods, nextItemID, nextMethodID, clock>>

\* PUT /crafting-methods/{id}: the id, the body, validation, then the first
\* SELECT, whose failure ends the request
MethodUpdate(p) ==
    /\ CanStart(p, "method")
    /\ \E path \in PathIDs, body \in UpdateMethodBodies(workload) :
          LET id == ParseUint(path)
              err == MethodFetchError(methods, id.val)
              refused == IF MethodBodyDecodeFails(body) THEN BadBody
                         ELSE IF ~UpdateMethodRequestValid(body) THEN Invalid
                         ELSE Wrap(err)
          IN  /\ err # NoError
              /\ IF ~id.ok THEN slot' = Refuse(p, "update", BadID, 400)
                 ELSE slot' = [slot EXCEPT ![p] =
                         [Answer(p, "update", refused,
                                 IF refused = BadBody THEN 400
                                 ELSE IF refused = Invalid THEN 422
                                 ELSE UpdateStatus(refused), <<>>)
                             EXCEPT !.id = id.val, !.body = <<body>>]]
    /\ UNCHANGED <<slugVars, builderVars, listVars, storeVars, serviceVars, dbVars,
                   workload, resource, items, methods, nextItemID, nextMethodID, clock>>

\* DELETE /crafting-methods/{id}
MethodDelete(p) ==
    /\ CanStart(p, "method")
    /\ \E path \in PathIDs :
          LET id == ParseUint(path)
              found == FindByID(methods, id.val)
              err == IF found = <<>> THEN ErrNotFound ELSE NoError
          IN  IF ~id.ok
              THEN /\ slot' = Refuse(p, "delete", BadID, 400)
                   /\ UNCHANGED methods
              ELSE /\ methods' = {r \in methods : r.ID # id.val}
                   /\ slot' = [slot EXCEPT ![p] =
                          [Answer(p, "delete", Wrap(err), DeleteStatus(Wrap(err)), <<>>)
                              EXCEPT !.id = id.val]]
    /\ UNCHANGED <<slugVars, builderVars, listVars, storeVars, serviceVars, dbVars,
                   workload, resource, items, nextItemID, nextMethodID, clock>>

\* GET /crafting-methods/{id}
MethodGet(p) ==
    /\ CanStart(p, "method")
    /\ \E path \in PathIDs :
          LET id == ParseUint(path)
              err == MethodFetchError(methods, id.val)
          IN  IF ~id.ok THEN slot' = Refuse(p, "get", BadID, 400)
              ELSE slot' = [slot EXCEPT ![p] =
                      [Answer(p, "get", Wrap(err), GetStatus(Wrap(err)), <<>>)
                          EXCEPT !.id = id.val]]
    /\ UNCHANGED <<slugVars, builderVars, listVars, storeVars, serviceVars, dbVars,
                   workload, resource, items, methods, nextItemID, nextMethodID, clock>>

\* the answer has been sent; the slot is free for the next request
Finish(p) ==
    /\ slot[p].pc = "done"
    /\ slot' = [slot EXCEPT ![p] = IdleSlot]
    /\ UNCHANGED <<slugVars, builderVars, listVars, storeVars, serviceVars, dbVars,
                   workload, resource, items, methods, nextItemID, nextMethodID, clock>>

(***************************************************************************)
(* Specifications.                                                         *)
(***************************************************************************)
InitSlug == SlugInit /\ BuilderIdle /\ ListIdle /\ StoreIdle /\ ServiceIdle /\ DbIdle /\ CrudIdle

NextSlug ==
    CallGenerateSlug /\ UNCHANGED <<builderVars, listVars, storeVars, serviceVars, dbVars, crudVars>>

SpecSlug == InitSlug /\ [][NextSlug]_vars

InitBuilder == SlugIdle /\ BuilderInit /\ ListIdle /\ StoreIdle /\ ServiceIdle /\ DbIdle /\ CrudIdle

NextBuilder ==
    CallNewPaginatedResponse
        /\ UNCHANGED <<slugVars, listVars, storeVars, serviceVars, dbVars, crudVars>>

SpecBuilder == InitBuilder /\ [][NextBuilder]_vars

InitList == SlugIdle /\ BuilderIdle /\ ListInit /\ StoreIdle /\ ServiceIdle /\ DbIdle /\ CrudIdle

NextList ==
    \/ ListParse /\ UNCHANGED <<slugVars, builderVars, storeVars, serviceVars, dbVars, crudVars>>
    \/ ListRun /\ UNCHANGED <<slugVars, builderVars, storeVars, serviceVars, dbVars, crudVars>>

SpecList == InitList /\ [][NextList]_vars

InitService == SlugIdle /\ BuilderIdle /\ ListIdle /\ StoreIdle /\ ServiceInit /\ DbIdle /\ CrudIdle

NextService ==
    StoreCallFails /\ UNCHANGED <<slugVars, builderVars, listVars, storeVars, dbVars, crudVars>>

SpecService == InitService /\ [][NextService]_vars

InitDb ==
    SlugIdle /\ BuilderIdle /\ ListIdle /\ StoreIdle /\ ServiceIdle /\ DbInit /\ CrudIdle

NextDb ==
    \/ DbDeleteItem
          /\ UNCHANGED <<slugVars, builderVars, listVars, storeVars, serviceVars, crudVars>>
    \/ DbDeleteCraftingMethod
          /\ UNCHANGED <<slugVars, builderVars, listVars, storeVars, serviceVars, crudVars>>

SpecDb == InitDb /\ [][NextDb]_vars

InitStore == SlugIdle /\ BuilderIdle /\ ListIdle /\ StoreInit /\ ServiceIdle /\ DbIdle /\ CrudIdle

NextStore ==
    \/ CallListItems /\ UNCHANGED <<slugVars, builderVars, listVars, serviceVars, dbVars, crudVars>>
    \/ CallUpdateItem /\ UNCHANGED <<slugVars, builderVars, listVars, serviceVars, dbVars, crudVars>>
    \/ CallUpdateCraftingMethod
          /\ UNCHANGED <<slugVars, builderVars, listVars, serviceVars, dbVars, crudVars>>

SpecStore == InitStore /\ [][NextStore]_vars

Init == SlugIdle /\ BuilderIdle /\ ListIdle /\ StoreIdle /\ ServiceIdle /\ DbIdle /\ CrudInit

Next ==
    \/ Tick
    \/ \E p \in Slots : ItemCreate(p)
    \/ \E p \in Slots : ItemCreateFetch(p)
    \/ \E p \in Slots : ItemUpdateFetch(p)
    \/ \E p \in Slots : ItemUpdateWrite(p)
    \/ \E p \in Slots : ItemUpdateRefetch(p)
    \/ \E p \in Slots : ItemDelete(p)
    \/ \E p \in Slots : ItemGet(p)
    \/ \E p \in Slots : ItemListCount(p)
    \/ \E p \in Slots : ItemListSelect(p)
    \/ \E p \in Slots : MethodCreate(p)
    \/ \E p \in Slots : MethodCreateFetch(p)
    \/ \E p \in Slots : MethodUpdate(p)
    \/ \E p \in Slots : MethodDelete(p)
    \/ \E p \in Slots : MethodGet(p)
    \/ \E p \in Slots : Finish(p)

Spec == Init /\ [][Next]_vars

(***************************************************************************)
(* C1.  The slug algorithm as the specification words it.                  *)
(***************************************************************************)
\* the characters the specification's strip step removes: everything but
\* lowercase ASCII letters, digits and the hyphen
SpecifiedStripSet == NameChars \ (LowerLetters \cup Digits \cup {HyphenChar})

SpecifiedSlug(name) ==
    Trim(ReplaceAllString(
             ReplaceAllString(ToLower(name), WhitespaceChars, <<HyphenChar>>),
             SpecifiedStripSet, <<>>),
         {HyphenChar})

\* C1: for every name both slug generators return lowercase(name) with each
\* whitespace run turned into one hyphen, every character other than a
\* lowercase letter, digit or hyphen removed, and outer hyphens trimmed.
C1_SlugFollowsAlgorithm ==
    slugPc = "done" =>
        /\ slugItem = SpecifiedSlug(slugName)
        /\ slugMethod = SpecifiedSlug(slugName)

\* C1, the scenario: two alphanumeric words separated by whitespace yield the
\* two lowercased words joined by one hyphen ("A a" -> "a-a").
C1_TwoWordsJoinedByHyphen ==
    (slugPc = "done" /\ slugName = <<"A", " ", "a">>) =>
        slugItem = <<"a", "-", "a">>

(***************************************************************************)
(* C2.  Idempotence.                                                       *)
(***************************************************************************)
\* C2: the slug generator is idempotent: generateSlug(generateSlug(name))
\* equals generateSlug(name) for every name.
C2_SlugIdempotent == slugPc = "done" => slugAgain = slugItem

\* a name with punctuation and whitespace has been slugged to a non-empty slug
C2_Witness ==
    /\ slugPc = "done"
    /\ slugItem # <<>>
    /\ slugItem # slugName
    /\ \E i \in 1..Len(slugName) : slugName[i] \in OtherChars
    /\ \E i \in 1..Len(slugName) : slugName[i] \in WhitespaceChars

(***************************************************************************)
(* C7.  lastPage.                                                          *)
(***************************************************************************)
\* the page after step 1 of the builder
NormalizedPageArg == IF bPage <= 0 THEN 1 ELSE bPage

\* n is the ceiling of total / perPage
IsCeiling(n, total, perPage) ==
    n * perPage >= total /\ (n - 1) * perPage < total

\* C7 as claimed: for every total >= 0 and every perPage > 0 given to the
\* builder, lastPage = ceil(total / perPage) when total > 0, and when
\* total = 0 lastPage is 1 if the normalized page is 1 and 0 otherwise.
C7_LastPageOfGivenPerPage ==
    (bPc = "done" /\ bPerPage > 0) =>
        IF bTotal > 0
        THEN IsCeiling(bResp.LastPage, bTotal, bPerPage)
        ELSE bResp.LastPage = (IF NormalizedPageArg = 1 THEN 1 ELSE 0)

\* C7 as amended: the quotient is taken with the returned perPage, which is
\* the given perPage clamped to MaxPerPage (100).
C7_LastPageOfReturnedPerPage ==
    (bPc = "done" /\ bPerPage > 0) =>
        /\ bResp.PerPage = (IF bPerPage > 100 THEN 100 ELSE bPerPage)
        /\ IF bTotal > 0
           THEN IsCeiling(bResp.LastPage, bTotal, bResp.PerPage)
           ELSE bResp.LastPage = (IF NormalizedPageArg = 1 THEN 1 ELSE 0)

\* a total that does not divide evenly, with a perPage above the maximum
C7_Witness ==
    /\ bPc = "done"
    /\ bPerPage > 100
    /\ bTotal > 100
    /\ bResp.LastPage = 2

(***************************************************************************)
(* C8.  from and to.                                                       *)
(***************************************************************************)
\* C8: when total > 0 and data is non-empty, from = (currentPage-1)*perPage+1
\* and to = from + len(data) - 1, with the returned currentPage and perPage;
\* otherwise from = to = 0.  So to - from + 1 = len(data) whenever from > 0.
C8_FromTo ==
    bPc = "done" =>
        /\ IF bTotal > 0 /\ Len(bData) > 0
           THEN /\ bResp.From = (bResp.CurrentPage - 1) * bResp.PerPage + 1
                /\ bResp.To = bResp.From + Len(bData) - 1
           ELSE bResp.From = 0 /\ bResp.To = 0
        /\ bResp.From > 0 => bResp.To - bResp.From + 1 = Len(bData)

\* rows on a page beyond the first, the requested page having been lowered
C8_Witness ==
    /\ bPc = "done"
    /\ bTotal > 0
    /\ Len(bData) > 1
    /\ bPage > bResp.CurrentPage
    /\ bResp.From > 1
    /\ bResp.To > bResp.From

(***************************************************************************)
(* C4, C5, C6.  The list parameters.                                       *)
(***************************************************************************)
\* the key is absent or its value is empty
IsUnset(values) == values = <<>> \/ values[1] = <<>>

\* the value is a base-10 integer: an optional sign and one or more digits
IsIntegerText(v) ==
    LET body == IF v # <<>> /\ v[1] \in {"-", "+"} THEN Tail(v) ELSE v
    IN  body # <<>> /\ \A i \in 1..Len(body) : body[i] \in {"0", "1", "2"}

\* the integer a set, numeric value stands for
GivenInt(values) == ParseInt(values[1]).val

\* C4: whenever ParseListParams succeeds, page >= 1 and 1 <= perPage <= 100:
\* page absent or <= 0 gives 1, per_page absent or <= 0 gives 15, per_page
\* above 100 (such as 200) gives 100, any other value is kept; so a request
\* that reaches the store asks for at most 100 rows at an offset >= 0.
C4_ParsedParamsInRange ==
    (lsPc \in {"list", "done"} /\ ~lsParams.err) =>
        /\ lsParams.Page >= 1
        /\ lsParams.PerPage >= 1 /\ lsParams.PerPage <= 100
        /\ lsParams.Page =
              (IF IsUnset(lsQuery.page) \/ GivenInt(lsQuery.page) <= 0
               THEN 1 ELSE GivenInt(lsQuery.page))
        /\ lsParams.PerPage =
              (IF IsUnset(lsQuery.per_page) \/ GivenInt(lsQuery.per_page) <= 0
               THEN 15
               ELSE IF GivenInt(lsQuery.per_page) > 100 THEN 100
               ELSE GivenInt(lsQuery.per_page))
        /\ lsQuery.per_page = << <<"2", "0", "0">> >> => lsParams.PerPage = 100
        /\ lsQuery.per_page = << <<"2", "1">> >> => lsParams.PerPage = 21
        /\ lsQuery.page \in {<< <<"0">> >>, << <<"-", "2">> >>} => lsParams.Page = 1
        /\ lsPc = "list" => OffsetOf(lsParams) >= 0

\* per_page=200 and page=0 have been parsed and the request is at the store
C4_Witness ==
    /\ lsPc = "list"
    /\ lsQuery.per_page = << <<"2", "0", "0">> >>
    /\ lsQuery.page = << <<"0">> >>
    /\ lsParams.PerPage = 100
    /\ lsParams.Page = 1

C6_NonPositivePageIsPageOne ==
    (/\ lsPc = "done"
     /\ ~IsUnset(lsQuery.page)
     /\ IsIntegerText(lsQuery.page[1])
     /\ GivenInt(lsQuery.page) <= 0) =>
        [status |-> lsStatus, body |-> lsBody]
            = ListHandler(lsTable, [lsQuery EXCEPT !.page = << <<"1">> >>])

\* page=-1 has been answered with the first page of a table of several rows
C6_Witness ==
    /\ lsPc = "done"
    /\ lsQuery.page = << <<"-", "1">> >>
    /\ lsQuery.per_page = << <<"2">> >>
    /\ lsStatus = 200
    /\ lsBody.Total > 2
    /\ Len(lsBody.Data) = 2
    /\ lsBody.From = 1

(***************************************************************************)
(* C3.  After any sequence and any interleaving of create, update and      *)
(* delete calls through the services, every stored item and every stored   *)
(* crafting method has slug = generateSlug(name).                          *)
(***************************************************************************)
C3_StoredSlugIsGenerated ==
    /\ \A r \in items : r.Slug = generateSlug(r.Name)
    /\ \A r \in methods : r.Slug = generateSlug(r.Name)

\* an update has just written a new name whose slug differs from the old one
C3_Witness ==
    \E p \in Slots :
        /\ slot[p].op = "update"
        /\ slot[p].pc = "update_refetch"
        /\ slot[p].body[1].name # <<>>
        /\ slot[p].fetched[1].Slug # generateSlug(slot[p].body[1].name[1])
        /\ \E r \in items : r.ID = slot[p].id /\ r.Name = slot[p].body[1].name[1]

(***************************************************************************)
(* C9.  A create whose name equals the name of a stored row of the same    *)
(* table, or normalizes to the slug of one, fails with DuplicateEntry: the *)
(* handler answers 409 and the stored rows are unchanged.  (The body is    *)
(* one that json.Decode accepts.)                                          *)
(***************************************************************************)
\* every nullable string the body names is null or a JSON string
WellFormed(body) ==
    body.description = <<>> \/ body.description[1].type \in {"null", "string"}

\* the table the requests of this behaviour work on
StoredRows == IF resource = "item" THEN items ELSE methods

NameTaken(name) ==
    \E r \in StoredRows : r.Name = name \/ r.Slug = generateSlug(name)

\* slot p takes a create request in this step
StartsCreate(p) == slot[p].pc = "idle" /\ slot'[p].pc # "idle" /\ slot'[p].op = "create"

C9_DuplicateCreateIs409 ==
    [][\A p \in Slots :
          (/\ StartsCreate(p)
           /\ WellFormed(slot'[p].body[1])
           /\ slot'[p].body[1].name # <<>>
           /\ NameTaken(slot'[p].body[1].name[1]))
          => /\ slot'[p].pc = "done"
             /\ slot'[p].status = 409
             /\ items' = items
             /\ methods' = methods]_vars

\* a create was refused with 409 for a name that differs from the stored
\* name with the same slug
C9_Witness ==
    \E p \in Slots :
        /\ slot[p].op = "create"
        /\ slot[p].pc = "done"
        /\ slot[p].status = 409
        /\ \E r \in StoredRows :
              /\ r.Name # slot[p].body[1].name[1]
              /\ r.Slug = generateSlug(slot[p].body[1].name[1])

(***************************************************************************)
(* C10.  An update whose request names no field that differs from the      *)
(* stored entity (a request naming no field included) never reaches the    *)
(* store's update, and returns the entity with its existing timestamps.    *)
(***************************************************************************)
\* no field the body names differs from the fetched row
NamesNoChange(body, row) ==
    /\ body.name = <<>> \/ body.name[1] = row.Name
    /\ body.is_raw_material = <<>> \/ body.is_raw_material[1] = row.IsRawMaterial
    /\ body.description = <<>> \/ DecodeNullString(body.description) = row.Description
    /\ body.image_url = <<>> \/ DecodeNullString(body.image_url) = row.ImageURL

C10_NoChangeNoWrite ==
    \A p \in Slots :
        (/\ resource = "item"
         /\ slot[p].op = "update"
         /\ slot[p].fetched # <<>>
         /\ NamesNoChange(slot[p].body[1], slot[p].fetched[1]))
        => /\ slot[p].pc = "done"
           /\ slot[p].status = 200
           /\ slot[p].ret = slot[p].fetched

(***************************************************************************)
(* C11.  After a successful update, every field the request does not name  *)
(* keeps the value it had in the stored entity: the item the service       *)
(* writes differs from the row it fetched only in fields the body names.   *)
(***************************************************************************)
\* the fields the body does not name are the same in both items
AbsentFieldsKept(body, before, after) ==
    /\ body.name = <<>> => after.Name = before.Name /\ after.Slug = before.Slug
    /\ body.is_raw_material = <<>> => after.IsRawMaterial = before.IsRawMaterial
    /\ body.description = <<>> => after.Description = before.Description
    /\ body.image_url = <<>> => after.ImageURL = before.ImageURL

C11_AbsentFieldsKept ==
    \A p \in Slots :
        (/\ resource = "item"
         /\ slot[p].op = "update"
         /\ slot[p].pc = "update_refetch")
        => AbsentFieldsKept(slot[p].body[1], slot[p].fetched[1], slot[p].ent[1])

(***************************************************************************)
(* C12.  Get, update and delete of an id that has no row fail with         *)
(* NotFound: the handler answers 404 and the tables are unchanged.  (The   *)
(* request is one that reaches the service.)                               *)
(***************************************************************************)
\* slot p takes a request of one of these kinds in this step
Starts(p, ops) == slot[p].pc = "idle" /\ slot'[p].pc # "idle" /\ slot'[p].op \in ops

C12_MissingIdIs404 ==
    [][\A p \in Slots :
          (/\ Starts(p, {"get", "update", "delete"})
           /\ slot'[p].outcome \notin {BadID, BadBody, Invalid}
           /\ ~ \E r \in StoredRows : r.ID = slot'[p].id)
          => /\ slot'[p].pc = "done"
             /\ slot'[p].status = 404
             /\ items' = items
             /\ methods' = methods]_vars

(***************************************************************************)
(* C13.  A handler's status is determined by the outcome: a body that does *)
(* not decode or a non-numeric id gives 400, NotFound 404, DuplicateEntry  *)
(* 409, any other service error 500, a successful create 201, a successful *)
(* get or update 200, a successful delete 204 with an empty body.          *)
(***************************************************************************)
StatusOfOutcome(op, outcome) ==
    CASE outcome \in {BadID, BadBody} -> 400
      [] outcome = ErrNotFound -> 404
      [] outcome = ErrDuplicateEntry -> 409
      [] outcome = OtherError -> 500
      [] outcome = NoError /\ op = "create" -> 201
      [] outcome = NoError /\ op \in {"get", "update"} -> 200
      [] outcome = NoError /\ op = "delete" -> 204

C13_StatusByOutcome ==
    \A p \in Slots :
        (slot[p].pc = "done" /\ slot[p].op # "list" /\ slot[p].outcome # Invalid)
        => /\ slot[p].status = StatusOfOutcome(slot[p].op, slot[p].outcome)
           /\ slot[p].op = "delete" => slot[p].ret = <<>>

\* a delete has removed a row and answered
C13_Witness ==
    \E p \in Slots :
        /\ slot[p].pc = "done"
        /\ slot[p].op = "delete"
        /\ slot[p].outcome = NoError
        /\ slot[p].status = 204
        /\ ~ \E r \in StoredRows : r.ID = slot[p].id

(***************************************************************************)
(* C14.  POST /items and PUT /items/{id} with a name shorter than two      *)
(* characters are answered with 422 and the service is not called.         *)
(***************************************************************************)
C14_ShortNameIs422 ==
    \A p \in Slots :
        (/\ resource = "item"
         /\ slot[p].op \in {"create", "update"}
         /\ slot[p].body # <<>>
         /\ WellFormed(slot[p].body[1])
         /\ slot[p].body[1].name # <<>>
         /\ Len(slot[p].body[1].name[1]) < 2)
        => slot[p].pc = "done" /\ slot[p].status = 422

(***************************************************************************)
(* Direct calls of the store's list: what the claims compare with.         *)
(***************************************************************************)
\* the rows the filters select
stMatching == {r \in stTable : MatchesFilters(r, stParams.Filters)}

\* the rows in ascending or descending order of one column (the columns of
\* the tables listed here hold no value twice)
RowsInOrder(rows, field, asc) ==
    CHOOSE seq \in [1..Cardinality(rows) -> rows] :
        \A i, j \in DOMAIN seq :
            i < j => IF asc THEN ColumnBefore(seq[i], seq[j], field)
                     ELSE ColumnBefore(seq[j], seq[i], field)

\* positions (page-1)*perPage+1 .. page*perPage of a sequence
PageOf(seq, page, perPage) ==
    LET skipped == (page - 1) * perPage
        left == Len(seq) - skipped
        n == IF left <= 0 THEN 0 ELSE IF left < perPage THEN left ELSE perPage
    IN  [k \in 1..n |-> seq[skipped + k]]

\* the page of the matching rows in this order is what the call returned
ReturnedInOrder(field, asc) ==
    stResult.items
        = PageOf(RowsInOrder(stMatching, field, asc), stParams.Page, stParams.PerPage)

\* <field>_asc and <field>_desc for the whitelisted fields
FieldDirectionStrings ==
    {f \o <<"_">> \o d : f \in allowedSortFields, d \in {AscWord, DescWord}}

(***************************************************************************)
(* C15.  For a sort string <field>_asc or <field>_desc with a whitelisted  *)
(* field, the store's list orders the rows by that field in the requested  *)
(* direction.                                                              *)
(***************************************************************************)
C15_SortedAsRequested ==
    stPc = "done" =>
        \A f \in allowedSortFields, d \in {AscWord, DescWord} :
            stParams.Sort = f \o <<"_">> \o d => ReturnedInOrder(f, d = AscWord)

(***************************************************************************)
(* C18.  For every sort string that is not a whitelisted field followed by *)
(* _asc or _desc, the store's list orders by created_at descending.        *)
(***************************************************************************)
C18_OtherSortIsDefault ==
    (stPc = "done" /\ stParams.Sort \notin FieldDirectionStrings)
    => ReturnedInOrder(CreatedAtField, FALSE)

\* the sort string is name_<x> or slug_<x> with no underscore in <x>
IsFieldThen(sort, f) ==
    /\ Len(sort) > Len(f)
    /\ SubSeq(sort, 1, Len(f) + 1) = f \o <<"_">>
    /\ \A i \in (Len(f) + 2)..Len(sort) : sort[i] # "_"

\* C18 as the code has it: such a string orders by created_at descending,
\* except that name_<x> and slug_<x> order by that field, ascending when
\* <x> is asc in any letter case and descending otherwise
C18_OtherSortByRule ==
    (stPc = "done" /\ stParams.Sort \notin FieldDirectionStrings)
    => IF \E f \in {NameField, SlugField} : IsFieldThen(stParams.Sort, f)
       THEN \A f \in {NameField, SlugField} :
               IsFieldThen(stParams.Sort, f)
               => ReturnedInOrder(f,
                     ToLower(SubSeq(stParams.Sort, Len(f) + 2, Len(stParams.Sort)))
                         = AscWord)
       ELSE ReturnedInOrder(CreatedAtField, FALSE)

\* a list sorted with name_foo has returned two rows, the later name first
C18_Witness ==
    /\ stPc = "done"
    /\ stParams.Sort = NameField \o <<"_">> \o <<"f", "o", "o">>
    /\ Len(stResult.items) = 2
    /\ TextBefore(stResult.items[2].Name, stResult.items[1].Name)
    /\ stResult.items[1].CreatedAt < stResult.items[2].CreatedAt

(***************************************************************************)
(* C20.  On an unchanging table the store's list returns the number of     *)
(* rows matching the filters as total, whatever page and perPage are, and  *)
(* as data the rows at positions (page-1)*perPage+1 .. page*perPage of the *)
(* matching rows in sort order; with no matching row it returns no data    *)
(* and sends the count statement only.                                     *)
(***************************************************************************)
C20_TotalAndPage ==
    stPc = "done" =>
        /\ stResult.total = Cardinality(stMatching)
        /\ stResult.items
              = PageOf(OrderBy(stMatching, SortClause(stParams.Sort)),
                       stParams.Page, stParams.PerPage)
        /\ stResult.total = 0 => stResult.items = <<>> /\ stResult.statements = 1
        /\ stResult.total > 0 => stResult.statements = 2

\* the second page of three matching rows, two to a page
C20_Witness ==
    /\ stPc = "done"
    /\ stResult.total = 3
    /\ stParams.PerPage = 2
    /\ stParams.Page = 2
    /\ Len(stResult.items) = 1

(***************************************************************************)
(* C19.  The returned currentPage is the normalized page, lowered to       *)
(* lastPage when it exceeds lastPage and lastPage > 0; hence currentPage   *)
(* >= 1, currentPage <= lastPage whenever lastPage > 0, and the returned   *)
(* perPage is within 1..100.                                               *)
(***************************************************************************)
C19_CurrentPage ==
    bPc = "done" =>
        /\ bResp.CurrentPage
              = IF NormalizedPageArg > bResp.LastPage /\ bResp.LastPage > 0
                THEN bResp.LastPage ELSE NormalizedPageArg
        /\ bResp.CurrentPage >= 1
        /\ bResp.LastPage > 0 => bResp.CurrentPage <= bResp.LastPage
        /\ bResp.PerPage \in 1..100

\* a page beyond the last one was asked for and lowered
C19_Witness ==
    /\ bPc = "done"
    /\ bResp.LastPage > 0
    /\ NormalizedPageArg > bResp.LastPage
    /\ bResp.CurrentPage = bResp.LastPage

(***************************************************************************)
(* C16.  The store's update fails with DuplicateEntry whenever the write   *)
(* would give a row a name or slug that another row holds, for items and   *)
(* for crafting methods: the update handler answers 409 and the rows are   *)
(* unchanged.                                                              *)
(***************************************************************************)
\* the entity handed over names a stored row and takes the name or the slug
\* of another one
WriteCollides ==
    /\ \E r \in stTable : r.ID = stParams.ID
    /\ \E r \in stTable :
          r.ID # stParams.ID /\ (r.Name = stParams.Name \/ r.Slug = stParams.Slug)

C16_DuplicateUpdateIs409 ==
    [][(stPc \in {"update_item", "update_method"} /\ WriteCollides)
       => /\ stResult'.err = ErrDuplicateEntry
          /\ stResult'.status = 409
          /\ stTable' = stTable]_vars

(***************************************************************************)
(* C17.  Create-then-list: once an item has been created, GET /items with  *)
(* a name filter that is a substring of the item's name and an             *)
(* is_raw_material filter equal to the item's flag answers 200 with the    *)
(* item in data and a total that counts it: the total is the number of     *)
(* stored items the two filters select, 1 when no other item matches.      *)
(***************************************************************************)
\* part occurs in text as a run of consecutive characters
Contains(text, part) ==
    \E k \in 0..(Len(text) - Len(part)) : SubSeq(text, k + 1, k + Len(part)) = part

\* the flag a true/false query value stands for
FlagOf(value) == value = <<"true">>

\* the stored items a query's two filters select, letter case set aside
Selected(table, query) ==
    {r \in table : /\ Contains(ToLower(r.Name), ToLower(query.name[1]))
                   /\ r.IsRawMaterial = FlagOf(query.is_raw_material)}

RowsOfFlag(table, value) ==
    IF value = <<>> THEN table
    ELSE {r \in table : r.IsRawMaterial = (value = <<"true">>)}

C21_AbsentIsNoFilter ==
    lsPc = "done"
    => /\ lsStatus = 200
          => /\ lsQuery.is_raw_material \in {<<>>, <<"true">>, <<"false">>}
             /\ lsBody.Total = Cardinality(RowsOfFlag(lsTable, lsQuery.is_raw_material))
             /\ \A i \in 1..Len(lsBody.Data) :
                   lsBody.Data[i] \in RowsOfFlag(lsTable, lsQuery.is_raw_material)
       /\ LET plain == ListHandler(lsTable, [lsQuery EXCEPT !.other = <<>>])
          IN  lsStatus = plain.status /\ lsBody = plain.body

\* a table with items of both flags, listed with is_raw_material=false and
\* an undeclared key: only the items whose flag is false are counted
C21_Witness ==
    /\ lsPc = "done"
    /\ lsStatus = 200
    /\ lsQuery.is_raw_material = <<"false">>
    /\ lsQuery.other # <<>>
    /\ Cardinality(lsTable) = MaxListRows
    /\ lsBody.Total = Cardinality({r \in lsTable : ~r.IsRawMaterial})
    /\ lsBody.Total > 0
    /\ lsBody.Total < Cardinality(lsTable)

(***************************************************************************)
(* C22.  Kind preservation: when a store call of an item or crafting-method *)
(* service method fails with an error matching NotFound or DuplicateEntry, *)
(* the error the service method returns matches the same kind, and an      *)
(* error of neither kind is never turned into one of them.                 *)
(***************************************************************************)
Kinds == {ErrNotFound, ErrDuplicateEntry}

\* as stated, for every store call of the service methods
C22_KindPreserved ==
    svPc = "done"
    => \A kind \in Kinds :
          /\ ErrorsIs(svErr, kind) => ErrorsIs(svRet, kind)
          /\ ErrorsIs(svRet, kind) => ErrorsIs(svErr, kind)

\* for every store call but the fetch that follows a successful write,
\* whose error is logged and dropped
C22_KindPreservedBeforeWrite ==
    svPc = "done"
    => /\ \A kind \in Kinds : ErrorsIs(svRet, kind) => ErrorsIs(svErr, kind)
       /\ ~svSite.refetch
          => /\ svRet # Nil
             /\ \A kind \in Kinds : ErrorsIs(svErr, kind) => ErrorsIs(svRet, kind)
       /\ svSite.refetch => svRet = Nil

\* the item store's update has failed with DuplicateEntry and the service
\* has returned an error of that kind with its own message around it
C22_Witness ==
    /\ svPc = "done"
    /\ svSite.resource = "item"
    /\ svSite.method = "Update"
    /\ svSite.op = "update"
    /\ ErrorsIs(svErr, ErrDuplicateEntry)
    /\ ErrorsIs(svRet, ErrDuplicateEntry)
    /\ Len(svRet) = Len(svErr) + 1

(***************************************************************************)
(* C23.  Once the store write of a create or an update has succeeded, the  *)
(* service call returns success whatever the fetch after it gives: if that *)
(* fetch fails, the answer is the entity the service holds, with the       *)
(* written values and the generated id, never an error.                    *)
(***************************************************************************)
\* slot p is about to fetch the row it has written
FetchesAfterWrite(p) == slot[p].pc \in {"create_fetch", "update_refetch"}

\* that fetch fails: the row is gone, or the statement is rejected
AfterWriteFetchFails(p) ==
    IF resource = "item" THEN FindByID(items, slot[p].id) = <<>>
    ELSE MethodFetchError(methods, slot[p].id) # NoError

C23_RefetchFailureIsNotFatal ==
    [][\A p \in Slots :
          (FetchesAfterWrite(p) /\ slot'[p].pc # slot[p].pc)
          => /\ slot'[p].pc = "done"
             /\ slot'[p].outcome = NoError
             /\ slot'[p].status = IF slot[p].op = "create" THEN 201 ELSE 200
             /\ AfterWriteFetchFails(p)
                => /\ slot'[p].ret = slot[p].ent
                   /\ slot'[p].ret # <<>>
                   /\ slot'[p].ret[1].ID = slot[p].id
                   /\ slot'[p].ret[1].ID # 0
                   /\ slot[p].body[1].name # <<>>
                      => slot'[p].ret[1].Name = slot[p].body[1].name[1]]_vars

\* an update of an item has answered 200 with the entity it wrote although
\* the row was deleted before the fetch
C23_Witness ==
    \E p \in Slots :
        /\ resource = "item"
        /\ slot[p].pc = "done"
        /\ slot[p].op = "update"
        /\ slot[p].status = 200
        /\ slot[p].ret = slot[p].ent
        /\ slot[p].ent # <<>>
        /\ ~ \E r \in items : r.ID = slot[p].id
        /\ \E q \in Slots : q # p /\ slot[q].op = "delete" /\ slot[q].status = 204

(***************************************************************************)
(* C24.  Timestamps and identity are the store's: a create stores a row    *)
(* with created_at = updated_at and a non-zero id no other stored row has; *)
(* whatever updates follow, a row keeps its id and its created_at;         *)
(* updated_at changes only in the step that runs the store's update; and   *)
(* updated_at >= created_at in every stored row.                           *)
(***************************************************************************)
\* what a step from table before to table after must respect; writes tells
\* whether the step is the store's update
StampsKept(before, after, writes) ==
    /\ \A r \in after :
          /\ r.ID # 0
          /\ r.UpdatedAt >= r.CreatedAt
          /\ \A q \in after : q.ID = r.ID => q = r
    /\ \A r \in after :
          (\A q \in before : q.ID # r.ID) => r.CreatedAt = r.UpdatedAt
    /\ \A q \in before : \A r \in after :
          q.ID = r.ID
          => /\ r.CreatedAt = q.CreatedAt
             /\ r.UpdatedAt # q.UpdatedAt => writes

C24_StoreWritesStamps ==
    [][/\ StampsKept(items, items',
                     \E p \in Slots : /\ slot[p].pc = "update_write"
                                      /\ slot'[p].pc = "update_refetch")
       /\ StampsKept(methods, methods', FALSE)]_vars

\* a row updated at a later time than it was created, under the id and the
\* creation time it got, next to a row with another id
C24_Witness ==
    \E r \in items :
        /\ r.UpdatedAt > r.CreatedAt
        /\ r.ID = 1
        /\ r.CreatedAt = 1
        /\ \E q \in items : q.ID = 2 /\ q.CreatedAt = q.UpdatedAt

(***************************************************************************)
(* C25.  Write-then-refetch is not atomic: with two requests at a time a   *)
(* successful UpdateItem or CreateItem can return an entity that differs   *)
(* from what the call wrote, namely the row as another request's write     *)
(* left it before the fetch; with one request at a time the entity         *)
(* returned is always the row as the call wrote it.                        *)
(***************************************************************************)
C25_ReturnedIsWrittenUnlessRaced ==
    [][\A p \in Slots :
          (FetchesAfterWrite(p) /\ slot'[p].pc = "done")
          => \/ /\ slot'[p].ret = slot[p].ent
                /\ workload = "sequential" => slot[p].ent[1] \in StoredRows
             \/ /\ workload # "sequential"
                /\ resource = "item"
                /\ slot'[p].ret # <<>>
                /\ slot'[p].ret = FindByID(items, slot[p].id)]_vars

\* an update has written one name and has answered 200 with another, the
\* one a second request wrote to the row in between
C25_Witness ==
    \E p \in Slots :
        /\ workload = "concurrent"
        /\ slot[p].pc = "done"
        /\ slot[p].op = "update"
        /\ slot[p].status = 200
        /\ slot[p].ent # <<>>
        /\ slot[p].ret # <<>>
        /\ slot[p].body[1].name # <<>>
        /\ slot[p].ent[1].Name = slot[p].body[1].name[1]
        /\ slot[p].ret[1].Name # slot[p].ent[1].Name
        /\ slot[p].ret[1].ID = slot[p].ent[1].ID

(***************************************************************************)
(* C26.  Uniqueness holds in every reachable state of the tables under any *)
(* interleaving of the requests, with nothing but the tables' constraints: *)
(* no two rows of a table share a name or a slug, and of concurrent        *)
(* creates whose names give the same slug one succeeds and the other fails *)
(* with DuplicateEntry.                                                    *)
(***************************************************************************)
NoTwoAlike(table) ==
    \A r \in table : \A q \in table :
        r # q => /\ r.ID # q.ID
                 /\ CollationKey(r.Name) # CollationKey(q.Name)
                 /\ CollationKey(r.Slug) # CollationKey(q.Slug)

\* the slug the service gives the name of a create body
SlugOfBody(body) ==
    IF resource = "item" THEN generateSlug(body.name[1])
    ELSE generateCraftingMethodSlug(body.name[1])

\* slot q holds a create that has inserted a row which is still stored
CreatedRowOf(q) ==
    {r \in StoredRows : /\ slot[q].op = "create"
                        /\ slot[q].pc = "create_fetch" \/ slot[q].status = 201
                        /\ r.ID = slot[q].id}

C26_UniqueUnderInterleaving ==
    [][/\ NoTwoAlike(items')
       /\ NoTwoAlike(methods')
       /\ \A p \in Slots : \A q \in Slots \ {p} :
             (/\ Starts(p, {"create"})
              /\ slot'[p].outcome \notin {BadBody, Invalid}
              /\ \E r \in CreatedRowOf(q) : r.Slug = SlugOfBody(slot'[p].body[1]))
             => /\ slot'[p].pc = "done"
                /\ slot'[p].outcome = ErrDuplicateEntry
                /\ slot'[p].status = 409
                /\ items' = items
                /\ methods' = methods]_vars

\* two creates at a time with different names of one slug: the row of the
\* first is stored, the second has answered 409
C26_Witness ==
    \E p \in Slots : \E q \in Slots \ {p} :
        /\ workload = "concurrent"
        /\ resource = "item"
        /\ slot[p].op = "create"
        /\ slot[q].op = "create"
        /\ slot[p].pc = "create_fetch"
        /\ slot[q].pc = "done"
        /\ slot[q].status = 409
        /\ slot[p].body[1].name # slot[q].body[1].name
        /\ generateSlug(slot[p].body[1].name[1]) = generateSlug(slot[q].body[1].name[1])
        /\ \E r \in items : r.ID = slot[p].id /\ r.Name = slot[p].body[1].name[1]
        /\ Cardinality(items) = 1

(***************************************************************************)
(* C27.  Foreign keys on delete: deleting a crafting method that a recipe  *)
(* references fails, not as NotFound, the handler answers 500 and the      *)
(* method and its recipes stay; deleting an item succeeds and removes      *)
(* every recipe input and output row that references it; after any         *)
(* sequence of deletes no recipe, input or output references a missing     *)
(* row.                                                                    *)
(***************************************************************************)
ReferencesHold(itemIDs, methodIDs, recipes, inputs, outputs) ==
    /\ \A r \in recipes : r.crafting_method_id \in methodIDs
    /\ \A l \in inputs \cup outputs :
          /\ l.item_id \in itemIDs
          /\ \E r \in recipes : r.id = l.recipe_id

C27_DeletePolicy ==
    [][/\ ReferencesHold(dbItems', dbMethods', dbRecipes', dbInputs', dbOutputs')
       /\ (/\ dbLast'.op = "delete_method"
           /\ dbLast'.id \in dbMethods
           /\ \E r \in dbRecipes : r.crafting_method_id = dbLast'.id)
          => /\ dbLast'.err \notin {NoError, ErrNotFound}
             /\ dbLast'.status = 500
             /\ dbLast'.id \in dbMethods'
             /\ dbRecipes' = dbRecipes
             /\ dbInputs' = dbInputs
             /\ dbOutputs' = dbOutputs
       /\ (dbLast'.op = "delete_item" /\ dbLast'.id \in dbItems)
          => /\ dbLast'.status = 204
             /\ dbLast'.id \notin dbItems'
             /\ \A l \in dbInputs' \cup dbOutputs' : l.item_id # dbLast'.id
             /\ \A l \in dbInputs : l.item_id # dbLast'.id => l \in dbInputs'
             /\ \A l \in dbOutputs : l.item_id # dbLast'.id => l \in dbOutputs'
             /\ dbRecipes' = dbRecipes]_vars

\* an item has been deleted, no input row is left and an output row is, and
\* the delete of the recipe's crafting method has just been refused
C27_Witness ==
    /\ dbLast.op = "delete_method"
    /\ dbLast.status = 500
    /\ dbLast.id \in dbMethods
    /\ \E r \in dbRecipes : r.crafting_method_id = dbLast.id
    /\ dbItems # 1..MaxDbID
    /\ dbInputs = {}
    /\ dbOutputs # {}

(***************************************************************************)
(* C28.  No lost update: when two UpdateItem requests on one id run at the *)
(* same time and change disjoint fields, one the name and the other        *)
(* is_raw_material, and both succeed, the stored row carries both changes. *)
(***************************************************************************)
\* slot p holds a successful update of the item that names only this field
UpdatedOnly(p, field) ==
    /\ slot[p].op = "update"
    /\ slot[p].pc = "done"
    /\ slot[p].status = 200
    /\ slot[p].ent # <<>>
    /\ slot[p].body # <<>>
    /\ IF field = "name"
       THEN /\ slot[p].body[1].name # <<>>
            /\ slot[p].body[1].is_raw_material = <<>>
            /\ slot[p].fetched[1].Name # slot[p].body[1].name[1]
       ELSE /\ slot[p].body[1].name = <<>>
            /\ slot[p].body[1].is_raw_material # <<>>
            /\ slot[p].fetched[1].IsRawMaterial # slot[p].body[1].is_raw_material[1]

C28_NoLostUpdate ==
    \A p \in Slots : \A q \in Slots \ {p} :
        (/\ resource = "item"
         /\ UpdatedOnly(p, "name")
         /\ UpdatedOnly(q, "flag")
         /\ slot[p].id = slot[q].id
         /\ slot[p].fetched = slot[q].fetched)
        => \A r \in items :
              r.ID = slot[p].id
              => /\ r.Name = slot[p].body[1].name[1]
                 /\ r.IsRawMaterial = slot[q].body[1].is_raw_material[1]

(***************************************************************************)
(* C29.  Every list response has len(data) <= per_page and to <= total,    *)
(* also when other requests create or delete rows between the store's      *)
(* count statement and its select statement.                               *)
(***************************************************************************)
C29_ToWithinTotal ==
    \A p \in Slots :
        (slot[p].pc = "done" /\ slot[p].op = "list" /\ slot[p].status = 200)
        => /\ Len(slot[p].ret[1].Data) <= slot[p].ret[1].PerPage
           /\ slot[p].ret[1].To <= slot[p].ret[1].Total

(***************************************************************************)
(* C30.  On an unchanging store the current_page of a list response        *)
(* describes its data: when total > 0 and 1 <= current_page <= last_page,  *)
(* data is not empty and holds the rows of page current_page, with         *)
(* from = (current_page - 1) * per_page + 1, also for a page parameter     *)
(* beyond last_page.                                                       *)
(***************************************************************************)
C30_CurrentPageDescribesData ==
    (/\ lsPc = "done"
     /\ lsStatus = 200
     /\ lsBody.Total > 0
     /\ 1 <= lsBody.CurrentPage
     /\ lsBody.CurrentPage <= lsBody.LastPage)
    => /\ lsBody.Data # <<>>
       /\ lsBody.From = (lsBody.CurrentPage - 1) * lsBody.PerPage + 1
       /\ lsBody.Data =
             PageOf(OrderBy(RowsOfFlag(lsTable, lsQuery.is_raw_material), DefaultSort),
                    lsBody.CurrentPage, lsBody.PerPage)

=============================================================================
